---------------------------- MODULE Spec2Model ----------------------------
(***************************************************************************)
(* Model of libwebcam's dynamic-control loader (libwebcam/dynctrl.c):      *)
(* c_add_control_mappings_from_file parses one XML document and applies    *)
(* its controls and mappings to every UVC device of the host.              *)
(*                                                                         *)
(* Texts that the code parses character by character (integers, GUIDs,     *)
(* names) are sequences of one-character strings; NULL is a text of its    *)
(* own.  Tokens that the code only compares with xmlStrEqual (control ids, *)
(* type names, request names) are TLA+ strings.                            *)
(***************************************************************************)
EXTENDS Integers, Sequences, FiniteSets, TLC

(***************************************************************************)
(* Bounds of the model.                                                    *)
(***************************************************************************)
\* Largest number of devices c_enum_devices reports.
MaxDevices == 2

(***************************************************************************)
(* Result codes (CResult of webcam.h, used by name in dynctrl.c).          *)
(***************************************************************************)
C_SUCCESS == "C_SUCCESS"
C_NOT_IMPLEMENTED == "C_NOT_IMPLEMENTED"
C_INIT_ERROR == "C_INIT_ERROR"
C_INVALID_ARG == "C_INVALID_ARG"
C_INVALID_DEVICE == "C_INVALID_DEVICE"
C_PARSE_ERROR == "C_PARSE_ERROR"
C_V4L2_ERROR == "C_V4L2_ERROR"
C_CANNOT_WRITE == "C_CANNOT_WRITE"
C_NO_MEMORY == "C_NO_MEMORY"

\* The NULL pointer, as a text.
NULL == <<"<NULL>">>

(***************************************************************************)
(* Character helpers.                                                      *)
(***************************************************************************)
\* isspace() in the C locale (the vertical tab has no TLA+ escape).
IsSpace(c) == c \in {" ", "\t", "\n", "\r", "\f"}

\* Value of a digit character in bases up to 16; 99 for any other character.
DigitVal(c) ==
    CASE c = "0" -> 0 [] c = "1" -> 1 [] c = "2" -> 2 [] c = "3" -> 3
      [] c = "4" -> 4 [] c = "5" -> 5 [] c = "6" -> 6 [] c = "7" -> 7
      [] c = "8" -> 8 [] c = "9" -> 9
      [] c \in {"a", "A"} -> 10 [] c \in {"b", "B"} -> 11
      [] c \in {"c", "C"} -> 12 [] c \in {"d", "D"} -> 13
      [] c \in {"e", "E"} -> 14 [] c \in {"f", "F"} -> 15
      [] OTHER -> 99

\* isxdigit()
IsXDigit(c) == DigitVal(c) < 16

\* The terminating NUL character of a C string.
NUL == "NUL"

\* The character at 1-based position i of s, NUL past its end (the terminator).
CharAt(s, i) == IF i >= 1 /\ i <= Len(s) THEN s[i] ELSE NUL

LowerCase ==
    <<"a", "b", "c", "d", "e", "f", "g", "h", "i", "j", "k", "l", "m", "n", "o", "p", "q",
      "r", "s", "t", "u", "v", "w", "x", "y", "z">>

UpperCase ==
    <<"A", "B", "C", "D", "E", "F", "G", "H", "I", "J", "K", "L", "M", "N", "O", "P", "Q",
      "R", "S", "T", "U", "V", "W", "X", "Y", "Z">>

\* tolower(c) - 'a' for a character that is no decimal digit: a letter of
\* either case, the terminator ('\0' is 0, 'a' is 97), or '-' (45); the
\* texts converted hold no other character but the space (32).
LetterOffset(c) ==
    IF \E n \in 1..26 : c \in {LowerCase[n], UpperCase[n]}
    THEN (CHOOSE n \in 1..26 : c \in {LowerCase[n], UpperCase[n]}) - 1
    ELSE IF c = NUL THEN 0 - 97
    ELSE IF c = "-" THEN 45 - 97
    ELSE 32 - 97

\* HEX_DECODE_CHAR: '0'..'9' map to 0..9, anything else to tolower(c)-'a'+10.
HEX_DECODE_CHAR(c) == IF DigitVal(c) < 10 THEN DigitVal(c) ELSE LetterOffset(c) + 10

\* HEX_DECODE_BYTE applied at 0-based offset off of text g, as the __u8 of
\* the array receives it (the shift by 4 multiplies by 16, also for the
\* negative value of a character below 'a').
HEX_DECODE_BYTE(g, off) ==
    (HEX_DECODE_CHAR(CharAt(g, off + 1)) * 16 + HEX_DECODE_CHAR(CharAt(g, off + 2))) % 256

\* A conversion that stores the bytes of all five groups in textual order.
guid_to_byte_array_Textual(g) ==
    << HEX_DECODE_BYTE(g, 0), HEX_DECODE_BYTE(g, 2),
       HEX_DECODE_BYTE(g, 4), HEX_DECODE_BYTE(g, 6),
       HEX_DECODE_BYTE(g, 9), HEX_DECODE_BYTE(g, 11),
       HEX_DECODE_BYTE(g, 14), HEX_DECODE_BYTE(g, 16),
       HEX_DECODE_BYTE(g, 19), HEX_DECODE_BYTE(g, 21),
       HEX_DECODE_BYTE(g, 24), HEX_DECODE_BYTE(g, 26),
       HEX_DECODE_BYTE(g, 28), HEX_DECODE_BYTE(g, 30),
       HEX_DECODE_BYTE(g, 32), HEX_DECODE_BYTE(g, 34) >>

\* guid_to_byte_array: the 16 bytes stored for a GUID text.
guid_to_byte_array(g) ==
    << HEX_DECODE_BYTE(g, 6), HEX_DECODE_BYTE(g, 4),
       HEX_DECODE_BYTE(g, 2), HEX_DECODE_BYTE(g, 0),
       HEX_DECODE_BYTE(g, 11), HEX_DECODE_BYTE(g, 9),
       HEX_DECODE_BYTE(g, 16), HEX_DECODE_BYTE(g, 14),
       HEX_DECODE_BYTE(g, 19), HEX_DECODE_BYTE(g, 21),
       HEX_DECODE_BYTE(g, 24), HEX_DECODE_BYTE(g, 26),
       HEX_DECODE_BYTE(g, 28), HEX_DECODE_BYTE(g, 30),
       HEX_DECODE_BYTE(g, 32), HEX_DECODE_BYTE(g, 34) >>

\* is_valid_guid: the length test of the code (string == NULL && ...) is never
\* true for a non-NULL string, so only the first 36 characters are looked at;
\* a shorter text fails at its terminator.
is_valid_guid(string) ==
    \A i \in 0..35 :
        IF i \in {8, 13, 18, 23}
        THEN CharAt(string, i + 1) = "-"
        ELSE IsXDigit(CharAt(string, i + 1))

(***************************************************************************)
(* strtol(string, &end, 0) and the integer checks built on it.             *)
(***************************************************************************)
RECURSIVE SkipSpaces(_, _)
\* First position at or after i that holds no whitespace.
SkipSpaces(s, i) == IF IsSpace(CharAt(s, i)) THEN SkipSpaces(s, i + 1) ELSE i

\* The int that `int ret = strtol(...)` keeps of a long whose low 32 bits
\* are hi * 2^16 + lo: the conversion keeps the low 32 bits, as a signed
\* number.
Int32(hi, lo) ==
    IF hi >= 32768 THEN (hi - 65536) * 65536 + lo ELSE hi * 65536 + lo

\* The negation of an int in 32 bits.
Neg32(v) == IF v = -2147483647 - 1 THEN v ELSE 0 - v

RECURSIVE ScanDigits(_, _, _, _, _)
\* Greedy digit scan of strtol in the given base from position i; the low
\* 32 bits of the value accumulated so far are hi * 2^16 + lo.  The result
\* is the value as an int and the position after the last digit.  (long has
\* 64 bits, and no digit run of the texts used here is long enough to reach
\* LONG_MAX, where strtol would stop accumulating.)
ScanDigits(s, i, base, hi, lo) ==
    IF DigitVal(CharAt(s, i)) < base
    THEN ScanDigits(s, i + 1, base,
                    (hi * base + ((lo * base + DigitVal(CharAt(s, i))) \div 65536)) % 65536,
                    (lo * base + DigitVal(CharAt(s, i))) % 65536)
    ELSE [value |-> Int32(hi, lo), end |-> i]

\* What strtol returns for the digits r scanned from position from: without
\* a digit the value is 0 and end is the start of the string.
StrtolResult(neg, from, r) ==
    IF r.end = from
    THEN [value |-> 0, end |-> 1]
    ELSE [value |-> IF neg THEN Neg32(r.value) ELSE r.value, end |-> r.end]

\* strtol after the sign, at position q: a 0x/0X prefix before a hex digit
\* selects base 16, a leading 0 base 8, anything else base 10.
StrtolDigits(s, neg, q) ==
    IF /\ CharAt(s, q) = "0"
       /\ CharAt(s, q + 1) \in {"x", "X"}
       /\ IsXDigit(CharAt(s, q + 2))
    THEN StrtolResult(neg, q + 2, ScanDigits(s, q + 2, 16, 0, 0))
    ELSE IF CharAt(s, q) = "0"
    THEN StrtolResult(neg, q, ScanDigits(s, q, 8, 0, 0))
    ELSE StrtolResult(neg, q, ScanDigits(s, q, 10, 0, 0))

\* strtol after the leading whitespace, at position p: an optional sign.
StrtolSign(s, p) ==
    StrtolDigits(s, CharAt(s, p) = "-",
                 IF CharAt(s, p) \in {"-", "+"} THEN p + 1 ELSE p)

\* strtol with base 0: [value, end], end being the position of the first
\* character not consumed; the value is the one the int variable of
\* is_valid_integer_string receives.
strtol0(s) == StrtolSign(s, SkipSpaces(s, 1))

\* The test of is_valid_integer_string on the result r of strtol:
\* *string != 0 and *end == 0.
WholeString(string, r) ==
    IF Len(string) > 0 /\ r.end = Len(string) + 1
    THEN [ok |-> TRUE, value |-> r.value]
    ELSE [ok |-> FALSE, value |-> 0]

\* is_valid_integer_string: [ok, value]; value is meaningful only when ok.
is_valid_integer_string(string) ==
    IF string = NULL THEN [ok |-> FALSE, value |-> 0]
    ELSE WholeString(string, strtol0(string))

\* is_valid_size with a non-negative threshold (the only use in the code).
is_valid_size(value, max) == value >= 0 /\ value <= max

\* The test of is_valid_size_string on the result r of
\* is_valid_integer_string.
SizeResult(r, max) ==
    IF r.ok /\ is_valid_size(r.value, max) THEN r ELSE [ok |-> FALSE, value |-> 0]

\* is_valid_size_string
is_valid_size_string(string, max) == SizeResult(is_valid_integer_string(string), max)

(***************************************************************************)
(* String helpers.                                                         *)
(***************************************************************************)
RECURSIVE Normalize(_, _)
\* The filter loop of normalize_string from position i on: a run of
\* whitespace becomes one space unless it ends the string.
Normalize(s, i) ==
    IF i > Len(s) THEN << >>
    ELSE IF IsSpace(s[i])
         THEN LET j == SkipSpaces(s, i)
              IN  IF j > Len(s) THEN << >>
                  ELSE <<" ", s[j]>> \o Normalize(s, j + 1)
         ELSE <<s[i]>> \o Normalize(s, i + 1)

\* A normalization that does not skip the leading whitespace.
normalize_string_KeepLeading(input) ==
    IF input = NULL THEN NULL ELSE Normalize(input, 1)

\* normalize_string: leading whitespace skipped, then the filter loop.
normalize_string(input) ==
    IF input = NULL THEN NULL ELSE Normalize(input, SkipSpaces(input, 1))

\* A character outside ASCII (iconv to ASCII fails on it).
NonAscii == "U+00E9"

\* unicode_to_ascii: ASCII text converts to itself; NULL, and a text iconv
\* cannot convert, give NULL.
unicode_to_ascii(unicode) ==
    IF unicode = NULL THEN NULL
    ELSE IF \E p \in 1..Len(unicode) : unicode[p] = NonAscii THEN NULL
    ELSE unicode

\* unicode_to_normalized_ascii
unicode_to_normalized_ascii(unicode) == normalize_string(unicode_to_ascii(unicode))

\* strtol(string, &end, 10): [value, end].
strtol10(s, p) ==
    StrtolResult(CharAt(s, p) = "-",
                 IF CharAt(s, p) \in {"-", "+"} THEN p + 1 ELSE p,
                 ScanDigits(s, IF CharAt(s, p) \in {"-", "+"} THEN p + 1 ELSE p, 10, 0, 0))

\* atoi of the text that starts at position p of s.
atoi(s, p) == strtol10(SubSeq(s, p, Len(s)), SkipSpaces(SubSeq(s, p, Len(s)), 1)).value

\* The minor version of string_to_version for the result r of strtol: read
\* only when a '.' follows the major version.
MinorVersion(string, r) == IF CharAt(string, r.end) = "." THEN atoi(string, r.end + 1) ELSE 0

\* string_to_version: <<major, minor>> as stored.
string_to_version(string) ==
    << strtol10(string, SkipSpaces(string, 1)).value,
       MinorVersion(string, strtol10(string, SkipSpaces(string, 1))) >>

\* The texts of the children of a <meta> node (NULL: no such child).
Meta(version, revision, author, contact, copyright) ==
    [version |-> version, revision |-> revision, author |-> author,
     contact |-> contact, copyright |-> copyright]

\* A <meta> node with all its children; the author has whitespace to
\* normalize.
FullMeta ==
    Meta(<<"1", ".", "2">>, <<"3">>, <<" ", "J", "\t", " ", "D", "\n">>,
         <<"j", "@", "d">>, <<"(", "c", ")">>)

\* A <meta> node without children.
EmptyMeta == Meta(NULL, NULL, NULL, NULL, NULL)

\* info->meta of a zeroed CDynctrlInfo.
ZeroMeta ==
    [version |-> <<0, 0>>, revision |-> <<0, 0>>, author |-> NULL, contact |-> NULL,
     copyright |-> NULL]

\* sizeof(mapping_info.name): the width of the name field of
\* struct uvc_xu_control_mapping.
MappingNameWidth == 32

\* mapping_info.name after `struct uvc_xu_control_mapping mapping_info = { 0 }`.
ZeroName == [p \in 1..MappingNameWidth |-> NUL]

\* strncpy(dest, src, n): the first n bytes of dest become the characters
\* of src, followed by '\0' up to n when src is shorter.
strncpy(dest, src, n) ==
    [p \in 1..Len(dest) |->
        IF p > n THEN dest[p] ELSE IF p <= Len(src) THEN src[p] ELSE NUL]

\* The bytes strncpy(dest, src, n) reads from src: it stops after the
\* terminator of src or after n bytes.
strncpy_read(src, n) == IF Len(src) < n THEN Len(src) + 1 ELSE n

\* A copy of the name with memcpy: as many bytes as the field takes,
\* wherever the string ends; "<beyond>" is a byte from beyond the terminator.
copy_name_Memcpy(name) ==
    [field |-> [p \in 1..MappingNameWidth |->
                   IF p = MappingNameWidth THEN NUL
                   ELSE IF p <= Len(name) THEN name[p]
                   ELSE IF p = Len(name) + 1 THEN NUL ELSE "<beyond>"],
     read |-> MappingNameWidth - 1]

\* The copy of the name in process_mapping: strncpy into mapping_info.name
\* for one byte less than the field has, then '\0' into the last byte.
\* [field, read]: the field, and the bytes read from the name.
copy_name(name) ==
    [field |-> [strncpy(ZeroName, name, MappingNameWidth - 1)
                   EXCEPT ![MappingNameWidth] = NUL],
     read |-> strncpy_read(name, MappingNameWidth - 1)]

(***************************************************************************)
(* Constant types, request flags, type names.                              *)
(***************************************************************************)
CT_INVALID == "CT_INVALID"
CT_INTEGER == "CT_INTEGER"
CT_GUID == "CT_GUID"

\* The text of a node or attribute that is absent, for tokens.
NoText == "<none>"

\* get_uvc_request_by_name: the flag of a request name, {} (0) when the name
\* is not recognized.  Flags are kept as a set of flag names.
get_uvc_request_by_name(name) ==
    CASE name = "SET_CUR" -> {"UVC_CTRL_FLAG_SET_CUR"}
      [] name = "GET_CUR" -> {"UVC_CTRL_FLAG_GET_CUR"}
      [] name = "GET_MIN" -> {"UVC_CTRL_FLAG_GET_MIN"}
      [] name = "GET_MAX" -> {"UVC_CTRL_FLAG_GET_MAX"}
      [] name = "GET_RES" -> {"UVC_CTRL_FLAG_GET_RES"}
      [] name = "GET_DEF" -> {"UVC_CTRL_FLAG_GET_DEF"}
      [] OTHER -> {}

\* get_uvc_ctrl_type_by_name: "-1" when the name is not recognized.
get_uvc_ctrl_type_by_name(name) ==
    IF name \in {"UVC_CTRL_DATA_TYPE_RAW", "UVC_CTRL_DATA_TYPE_SIGNED",
                 "UVC_CTRL_DATA_TYPE_UNSIGNED", "UVC_CTRL_DATA_TYPE_BOOLEAN",
                 "UVC_CTRL_DATA_TYPE_ENUM", "UVC_CTRL_DATA_TYPE_BITMASK"}
    THEN name ELSE "-1"

\* get_v4l2_ctrl_type_by_name (ENABLE_RAW_CONTROLS not defined): "0" when the
\* name is not recognized.
get_v4l2_ctrl_type_by_name(name) ==
    IF name \in {"V4L2_CTRL_TYPE_INTEGER", "V4L2_CTRL_TYPE_BOOLEAN"}
    THEN name ELSE "0"

(***************************************************************************)
(* Lookups in the lists of the parse context.  Both lists grow at the      *)
(* head, so position 1 is the newest element.                              *)
(***************************************************************************)
\* A lookup that always filters by type, so that no constant is found for
\* CT_INVALID.
lookup_constant_Typed(constants, find_name, find_type) ==
    LET hits == {p \in 1..Len(constants) :
                    /\ constants[p].name = find_name
                    /\ constants[p].type = find_type}
    IN  IF hits = {} THEN 0 ELSE CHOOSE p \in hits : \A q \in hits : p <= q

\* lookup_constant: the position of the first constant with the name (and the
\* type, unless find_type is CT_INVALID), 0 when there is none.
lookup_constant(constants, find_name, find_type) ==
    LET hits == {p \in 1..Len(constants) :
                    /\ constants[p].name = find_name
                    /\ (find_type = CT_INVALID \/ constants[p].type = find_type)}
    IN  IF hits = {} THEN 0 ELSE CHOOSE p \in hits : \A q \in hits : p <= q

\* A resolution that prefers the constant of that name to the number read.
IntegerOrConstant_SymbolFirst(r, constants, c) ==
    IF c # 0 THEN [ok |-> TRUE, value |-> constants[c].value]
    ELSE IF r.ok THEN r
    ELSE [ok |-> FALSE, value |-> 0]

\* lookup_or_convert_to_integer on the result r of is_valid_integer_string
\* and the position c of the integer constant of that name: the literal
\* wins, then the constant.
IntegerOrConstant(r, constants, c) ==
    IF r.ok THEN r
    ELSE IF c # 0 THEN [ok |-> TRUE, value |-> constants[c].value]
    ELSE [ok |-> FALSE, value |-> 0]

\* lookup_or_convert_to_integer: [ok, value].
lookup_or_convert_to_integer(text, constants) ==
    IF text = NULL THEN [ok |-> FALSE, value |-> 0]
    ELSE IntegerOrConstant(is_valid_integer_string(text), constants,
                           lookup_constant(constants, text, CT_INTEGER))

\* The all-zero GUID of a freshly zeroed structure.
ZeroGuid == [b \in 1..16 |-> 0]

\* The GUID of the constant at position c, if there is one.
GuidConstant(constants, c) ==
    IF c # 0 THEN [ok |-> TRUE, guid |-> constants[c].guid]
    ELSE [ok |-> FALSE, guid |-> ZeroGuid]

\* lookup_or_convert_to_guid: [ok, guid].
lookup_or_convert_to_guid(text, constants) ==
    IF text = NULL THEN [ok |-> FALSE, guid |-> ZeroGuid]
    ELSE IF is_valid_guid(text) THEN [ok |-> TRUE, guid |-> guid_to_byte_array(text)]
    ELSE GuidConstant(constants, lookup_constant(constants, text, CT_GUID))

\* lookup_control: the position of the first control with the id, 0 if none.
lookup_control(controls, name) ==
    LET hits == {p \in 1..Len(controls) : controls[p].id = name}
    IN  IF hits = {} THEN 0 ELSE CHOOSE p \in hits : \A q \in hits : p <= q

(***************************************************************************)
(* Documents.  A document is what xmlCtxtReadFile returns for a file: the  *)
(* declarations of its <constants>, <devices>/<device>/<controls> and      *)
(* <mappings> sections in document order, each with its line; or a parse   *)
(* error.  The nested loops of process_devices, process_device and         *)
(* process_controls visit every <control> in document order, so the        *)
(* controls are kept as one sequence.                                      *)
(***************************************************************************)
TxtGuid1 == <<"6", "3", "6", "1", "0", "6", "8", "2", "-", "5", "0", "7", "0", "-", "4", "9", "a", "b", "-", "b", "8", "c", "c", "-", "b", "3", "8", "5", "5", "e", "8", "d", "2", "2", "1", "d">>
TxtGuid2 == <<"8", "2", "0", "6", "6", "1", "6", "3", "-", "7", "0", "5", "0", "-", "A", "B", "4", "9", "-", "B", "8", "C", "C", "-", "B", "3", "8", "5", "5", "E", "8", "D", "2", "2", "5", "2">>
TxtXuGuid == <<"X", "U", "_", "G", "U", "I", "D">>
TxtSel == <<"S", "E", "L">>
TxtLed == <<" ", " ", "L", "E", "D", " ", " ", "M", "o", "d", "e", " ">>
TxtFocus == <<"F", "o", "c", "u", "s">>

\* A well-formed <control> written on one line: its <request> nodes are on
\* the line of the <control> node.
Control(line, id, entity, selector, index, size, requests) ==
    [line |-> line, id |-> id, entity |-> entity, selector |-> selector,
     index |-> index, size |-> size, hasRequests |-> TRUE, requests |-> requests,
     requestLine |-> line]

\* A <mapping> with all its elements present, written on one line: its
\* <uvc>, <control_ref> and <v4l2> nodes are on the line of the <mapping>
\* node.
Mapping(line, name, idref, size, offset, uvc_type, v4l2_id, v4l2_type) ==
    [line |-> line, hasV4l2 |-> TRUE, hasUvc |-> TRUE, hasControlRef |-> TRUE,
     idref |-> idref, name |-> name, size |-> size, offset |-> offset,
     uvc_type |-> uvc_type, v4l2_id |-> v4l2_id, v4l2_type |-> v4l2_type,
     uvcLine |-> line, refLine |-> line, v4l2Line |-> line]

\* The top-level sections of a document: the children of the root node that
\* process_dynctrl_doc looks for.
AllSections == {"meta", "constants", "devices", "mappings"}

\* One GUID constant, one control that names it as its entity with two
\* recognized requests, one mapping of that control.
DocA ==
    [wellFormed |-> TRUE, errLine |-> 0, errCol |-> 0, sections |-> AllSections,
     meta |-> FullMeta,
     constants |-> << [line |-> 3, id |-> TxtXuGuid, type |-> "guid", value |-> TxtGuid1] >>,
     controls |-> << Control(7, "xu_led", TxtXuGuid, <<"1">>, <<"0">>, <<"3">>,
                             <<"SET_CUR", "GET_CUR">>) >>,
     mappings |-> << Mapping(12, TxtLed, "xu_led", <<"8">>, <<"0">>,
                             "UVC_CTRL_DATA_TYPE_UNSIGNED", <<"0", "x", "0", "A", "0", "1">>,
                             "V4L2_CTRL_TYPE_INTEGER") >> ]

\* Declarations that fail before their well-formed siblings: a redefined
\* constant and one with an invalid value; a control whose size is one past
\* the 16-bit maximum; a mapping of an undeclared control.
DocB ==
    [wellFormed |-> TRUE, errLine |-> 0, errCol |-> 0, sections |-> AllSections,
     meta |-> FullMeta,
     constants |-> << [line |-> 3, id |-> TxtSel, type |-> "integer", value |-> <<"3">>],
                      [line |-> 4, id |-> TxtSel, type |-> "integer", value |-> <<"4">>],
                      [line |-> 5, id |-> <<"N">>, type |-> "integer", value |-> <<"x">>] >>,
     controls |-> << Control(8, "xu_big", TxtGuid2, <<"2">>, <<"1">>,
                             <<"0", "x", "1", "0", "0", "0", "0">>, <<"GET_CUR">>),
                     Control(9, "xu_focus", TxtGuid2, TxtSel, <<"1">>,
                             <<"0", "x", "F", "F", "F", "F">>, <<"GET_CUR", "GET_FOO">>) >>,
     mappings |-> << Mapping(14, TxtFocus, "xu_none", <<"8">>, <<"0">>,
                             "UVC_CTRL_DATA_TYPE_SIGNED", <<"1", "0">>,
                             "V4L2_CTRL_TYPE_INTEGER"),
                     Mapping(15, TxtFocus, "xu_focus", <<"1">>, <<"7">>,
                             "UVC_CTRL_DATA_TYPE_BOOLEAN", <<"1", "1">>,
                             "V4L2_CTRL_TYPE_BOOLEAN") >> ]

\* A file that is not well-formed XML: the parser reports the position.
DocMalformed ==
    [wellFormed |-> FALSE, errLine |-> 2, errCol |-> 5, sections |-> {},
     meta |-> EmptyMeta,
     constants |-> << >>, controls |-> << >>, mappings |-> << >>]

\* Declarations that fail at each step of their resolution, before the one
\* well-formed control and the one well-formed mapping: a constant redefined
\* with the other type; controls without id, with an entity that names an
\* integer constant, a selector that names a GUID constant, an index and a
\* size that are neither numbers nor constants; a control whose selector and
\* index do not fit 8 bits; mappings of a control that was not stored,
\* without a name, and with an invalid V4L2 ID, V4L2 type, size, offset and
\* UVC type.
DocC ==
    [wellFormed |-> TRUE, errLine |-> 0, errCol |-> 0, sections |-> AllSections,
     meta |-> FullMeta,
     constants |-> << [line |-> 3, id |-> <<"K">>, type |-> "integer", value |-> <<"3">>],
                      [line |-> 4, id |-> <<"K">>, type |-> "guid", value |-> TxtGuid1],
                      [line |-> 5, id |-> <<"G">>, type |-> "guid", value |-> TxtGuid2] >>,
     controls |-> << Control(9, NoText, <<"G">>, <<"1">>, <<"0">>, <<"1">>, <<"GET_CUR">>),
                     Control(10, "xu_ent", <<"K">>, <<"1">>, <<"0">>, <<"1">>, <<"GET_CUR">>),
                     Control(11, "xu_sel", <<"G">>, <<"G">>, <<"0">>, <<"1">>, <<"GET_CUR">>),
                     Control(12, "xu_idx", <<"G">>, <<"K">>, <<"x">>, <<"1">>, <<"GET_CUR">>),
                     Control(13, "xu_siz", <<"G">>, <<"K">>, <<"0">>, <<"N", "O">>,
                             <<"GET_CUR">>),
                     Control(14, "xu_wide", <<"G">>, <<"2", "5", "7">>, <<"-", "1">>,
                             <<"K">>, <<"GET_CUR">>) >>,
     mappings |-> << Mapping(20, TxtFocus, "xu_sel", <<"8">>, <<"0">>,
                             "UVC_CTRL_DATA_TYPE_UNSIGNED", <<"2", "0">>,
                             "V4L2_CTRL_TYPE_INTEGER"),
                     Mapping(21, NULL, "xu_wide", <<"8">>, <<"0">>,
                             "UVC_CTRL_DATA_TYPE_UNSIGNED", <<"2", "1">>,
                             "V4L2_CTRL_TYPE_INTEGER"),
                     Mapping(22, TxtFocus, "xu_wide", <<"8">>, <<"0">>,
                             "UVC_CTRL_DATA_TYPE_UNSIGNED", <<"N", "O">>,
                             "V4L2_CTRL_TYPE_INTEGER"),
                     Mapping(23, TxtFocus, "xu_wide", <<"8">>, <<"0">>,
                             "UVC_CTRL_DATA_TYPE_UNSIGNED", <<"2", "3">>,
                             "V4L2_CTRL_TYPE_FOO"),
                     Mapping(24, TxtFocus, "xu_wide", <<"2", "5", "6">>, <<"0">>,
                             "UVC_CTRL_DATA_TYPE_UNSIGNED", <<"2", "4">>,
                             "V4L2_CTRL_TYPE_INTEGER"),
                     Mapping(25, TxtFocus, "xu_wide", <<"8">>, <<"K">>,
                             "UVC_CTRL_DATA_TYPE_UNSIGNED", <<"2", "5">>,
                             "V4L2_CTRL_TYPE_INTEGER"),
                     Mapping(26, TxtFocus, "xu_wide", <<"8">>, <<"0">>,
                             "UVC_CTRL_DATA_TYPE_FOO", <<"2", "6">>,
                             "V4L2_CTRL_TYPE_INTEGER"),
                     Mapping(27, TxtFocus, "xu_wide", <<"8">>, <<"0">>,
                             "UVC_CTRL_DATA_TYPE_UNSIGNED", <<"K">>,
                             "V4L2_CTRL_TYPE_INTEGER") >> ]

\* The files a session can be given.
Docs == <<DocA, DocB, DocMalformed, DocC>>

\* DocA without the section s: the root node has no child of that name, and
\* the declarations of the section are not in the file.
Without(s) ==
    [DocA EXCEPT !.sections = AllSections \ {s},
                 !.meta = IF s = "meta" THEN EmptyMeta ELSE @,
                 !.constants = IF s = "constants" THEN << >> ELSE @,
                 !.controls = IF s = "devices" THEN << >> ELSE @,
                 !.mappings = IF s = "mappings" THEN << >> ELSE @]

\* Well-formed files that lack one top-level section.
SectionDocs ==
    <<Without("meta"), Without("constants"), Without("devices"), Without("mappings")>>

\* DocA with a <meta> node that has no <version> child.
DocNoVersion == [DocA EXCEPT !.meta.version = NULL]

\* All files, by position: a file name is a position in this list.
Files == Docs \o SectionDocs \o <<DocNoVersion>>

(***************************************************************************)
(* The diagnostic log and the statistics of CDynctrlInfo.                  *)
(***************************************************************************)
CD_SEVERITY_ERROR == "CD_SEVERITY_ERROR"
CD_SEVERITY_WARNING == "CD_SEVERITY_WARNING"
CD_SEVERITY_INFO == "CD_SEVERITY_INFO"
CD_REPORT_ERRORS == "CD_REPORT_ERRORS"
CD_RETRIEVE_META_INFO == "CD_RETRIEVE_META_INFO"

\* A message before it is stored: the text is the format of the call and the
\* device it names (0 when it names none).
Msg(line, col, severity, fmt, dev) ==
    [line |-> line, col |-> col, severity |-> severity,
     text |-> [fmt |-> fmt, dev |-> dev]]

\* add_error_at_node: an error at the line of a node, column 0.
ErrAt(line, fmt) == Msg(line, 0, CD_SEVERITY_ERROR, fmt, 0)

\* add_error: an error without position.
Err(fmt, dev) == Msg(0, 0, CD_SEVERITY_ERROR, fmt, dev)

\* A log that stores every message, whatever the caller asked for.
add_message_v_Always(inf, msg) == [inf EXCEPT !.messages = Append(@, msg)]

\* add_message_v: nothing is stored without an info structure (C_INVALID_ARG)
\* or without CD_REPORT_ERRORS (C_SUCCESS); otherwise resize_message_buffer
\* stores the message after the ones already there.
add_message_v(inf, msg) ==
    IF ~inf.present THEN inf
    ELSE IF CD_REPORT_ERRORS \notin inf.flags THEN inf
    ELSE [inf EXCEPT !.messages = Append(@, msg)]

RECURSIVE add_messages(_, _)
\* The add_message calls of one step, in the order they are made.
add_messages(inf, msgs) ==
    IF msgs = << >> THEN inf
    ELSE add_messages(add_message_v(inf, Head(msgs)), Tail(msgs))

ZeroStats ==
    [constants |-> [successful |-> 0, failed |-> 0],
     controls  |-> [successful |-> 0, failed |-> 0],
     mappings  |-> [successful |-> 0, failed |-> 0]]

\* The counting statement shared by process_constants, process_controls and
\* process_mappings:
\*     if(ret) stats.<category>.successful++; else stats.<category>.failed++;
CountStat(st, ret) ==
    IF ret # C_SUCCESS
    THEN [st EXCEPT !.successful = @ + 1]
    ELSE [st EXCEPT !.failed = @ + 1]

\* The statistics are kept only when the caller passed an info structure.
count_constant(inf, ret) ==
    IF inf.present THEN [inf EXCEPT !.stats.constants = CountStat(@, ret)] ELSE inf

count_control(inf, ret) ==
    IF inf.present THEN [inf EXCEPT !.stats.controls = CountStat(@, ret)] ELSE inf

count_mapping(inf, ret) ==
    IF inf.present THEN [inf EXCEPT !.stats.mappings = CountStat(@, ret)] ELSE inf

(***************************************************************************)
(* Processing of one declaration, up to the request to the driver.         *)
(***************************************************************************)
\* The type of a constant for the text of its type attribute.
constant_type(type) ==
    IF type = "integer" THEN CT_INTEGER
    ELSE IF type = "guid" THEN CT_GUID ELSE CT_INVALID

\* A constant that fails: C_PARSE_ERROR, the list unchanged, one error.
ConstantFails(c, constants, fmt) ==
    [ret |-> C_PARSE_ERROR, constants |-> constants, msgs |-> <<ErrAt(c.line, fmt)>>]

\* process_constant for the name, the type and the integer value read: the
\* result, the list of constants afterwards and the messages logged.  The
\* values of the guid constants of the documents are GUID texts.
StoreConstant(c, constants, name, type, int) ==
    IF name = NULL
    THEN ConstantFails(c, constants, "Constant has no name. <id> is mandatory.")
    ELSE IF lookup_constant(constants, name, CT_INVALID) # 0
    THEN ConstantFails(c, constants,
                       "Constant '%s' has already been defined. Ignoring redefinition.")
    ELSE IF type = CT_INTEGER /\ ~int.ok
    THEN ConstantFails(c, constants, "Integer constant %s has invalid value '%s'.")
    ELSE IF type = CT_INVALID
    THEN ConstantFails(c, constants,
                       "Constant has unknown type '%s' (must be 'integer' or 'guid').")
    ELSE [ret |-> C_SUCCESS,
          constants |-> << [type |-> type, name |-> name,
                            value |-> IF type = CT_INTEGER THEN int.value ELSE 0,
                            guid |-> IF type = CT_GUID
                                     THEN guid_to_byte_array(c.value)
                                     ELSE ZeroGuid] >> \o constants,
          msgs |-> << >>]

\* process_constant
process_constant(c, constants) ==
    StoreConstant(c, constants, unicode_to_ascii(c.id), constant_type(c.type),
                  is_valid_integer_string(c.value))

\* process_constant reads the <value> of c: it has a name that is not yet in
\* the list.
ReadsValue(c, constants) ==
    /\ unicode_to_ascii(c.id) # NULL
    /\ lookup_constant(constants, unicode_to_ascii(c.id), CT_INVALID) = 0

\* A call of process_constant: the ways it can end, as [signal, r] ("none":
\* the call returned r).  For an integer constant without <value>
\* add_error_at_node is called with the NULL node: its assert aborts the
\* process, and without assertions node->line is read through NULL.  For a
\* guid constant without <value> guid_to_byte_array reads through the NULL
\* text.  A read through NULL kills the process or yields 0.
constant_call(c, constants, nd) ==
    IF ~(ReadsValue(c, constants) /\ c.value = NULL)
          \/ constant_type(c.type) = CT_INVALID
    THEN {[signal |-> "none", r |-> process_constant(c, constants)]}
    ELSE IF constant_type(c.type) = CT_INTEGER
    THEN IF ~nd THEN {[signal |-> "SIGABRT", r |-> process_constant(c, constants)]}
         ELSE {[signal |-> "SIGSEGV", r |-> process_constant(c, constants)],
               [signal |-> "none", r |-> process_constant([c EXCEPT !.line = 0], constants)]}
    ELSE {[signal |-> "SIGSEGV", r |-> process_constant(c, constants)],
          [signal |-> "none", r |-> process_constant([c EXCEPT !.value = << >>], constants)]}

\* A zeroed UVCXUControl.
ZeroControl ==
    [id |-> NoText, entity |-> ZeroGuid, selector |-> 0, index |-> 0,
     size |-> 0, flags |-> {}]

RECURSIVE RequestFlags(_)
\* The flags of the recognized requests of a <requests> list.
RequestFlags(requests) ==
    IF requests = << >> THEN {}
    ELSE get_uvc_request_by_name(Head(requests)) \cup RequestFlags(Tail(requests))

RECURSIVE RequestErrors(_, _)
\* One error per request whose name is not recognized, in document order.
RequestErrors(requests, line) ==
    IF requests = << >> THEN << >>
    ELSE (IF get_uvc_request_by_name(Head(requests)) = {}
          THEN <<ErrAt(line, "Invalid UVC request specified: '%s'")>>
          ELSE << >>) \o RequestErrors(Tail(requests), line)

\* Flags made of the recognized requests alone.
control_flags_RequestsOnly(requests) == RequestFlags(requests)

\* The flags of a control: those of its recognized requests, and
\* UVC_CTRL_FLAG_AUTO_UPDATE in every case.
control_flags(requests) == RequestFlags(requests) \cup {"UVC_CTRL_FLAG_AUTO_UPDATE"}

\* A control that stops before its ioctl with result ret and one error.
ControlStops(c, ret, fmt) ==
    [send |-> FALSE, ret |-> ret, xu |-> ZeroControl, msgs |-> <<ErrAt(c.line, fmt)>>]

\* process_control before its ioctl, for the entity, selector, index and
\* size read: [send, ret, xu, msgs].  send says that the control reaches
\* UVCIOC_CTRL_ADD; otherwise ret is what the function returns at its done
\* label.  A size outside [0, 0xFFFF] that was read successfully leaves ret
\* at the C_SUCCESS of lookup_or_convert_to_integer.
BuildControl(c, entity, selector, index, size) ==
    IF c.id = NoText
    THEN ControlStops(c, C_PARSE_ERROR, "Control has no ID. 'id' attribute is mandatory.")
    ELSE IF ~entity.ok
    THEN ControlStops(c, C_PARSE_ERROR,
             "Control entity contains invalid GUID or references unknown constant: '%s'")
    ELSE IF ~selector.ok
    THEN ControlStops(c, C_PARSE_ERROR,
             "Control selector contains invalid number or references unknown constant: '%s'")
    ELSE IF ~index.ok
    THEN ControlStops(c, C_PARSE_ERROR, "Invalid control index specified: '%s'")
    ELSE IF ~size.ok
    THEN ControlStops(c, C_PARSE_ERROR, "Invalid control size specified: '%s'")
    ELSE IF ~is_valid_size(size.value, 65535)
    THEN ControlStops(c, C_SUCCESS, "Invalid control size specified: '%s'")
    ELSE IF ~c.hasRequests
    THEN ControlStops(c, C_PARSE_ERROR,
             "List of supported UVC requests missing. <requests> is mandatory.")
    ELSE [send |-> TRUE, ret |-> C_SUCCESS,
          xu |-> [id |-> c.id, entity |-> entity.guid,
                  selector |-> selector.value % 256,
                  index |-> index.value % 256,
                  size |-> size.value,
                  flags |-> control_flags(c.requests)],
          msgs |-> RequestErrors(c.requests, c.requestLine)]

\* process_control before its ioctl.
resolve_control(c, constants) ==
    BuildControl(c, lookup_or_convert_to_guid(c.entity, constants),
                 lookup_or_convert_to_integer(c.selector, constants),
                 lookup_or_convert_to_integer(c.index, constants),
                 lookup_or_convert_to_integer(c.size, constants))

\* A zeroed struct uvc_xu_control_mapping.
ZeroMapping ==
    [id |-> 0, name |-> ZeroName, entity |-> ZeroGuid, selector |-> 0, size |-> 0,
     offset |-> 0, v4l2_type |-> "0", data_type |-> "0"]

\* A mapping that stops before its ioctl with result ret; read is the
\* number of bytes of the name that were read up to there.
MappingQuits(ret, msgs) ==
    [send |-> FALSE, ret |-> ret, mapping |-> ZeroMapping, msgs |-> msgs, read |-> 0]

\* A mapping that stops with one error but reports C_SUCCESS.
MappingStops_Success(m, fmt) == MappingQuits(C_SUCCESS, <<ErrAt(m.line, fmt)>>)

\* A mapping that stops with C_PARSE_ERROR and one error.
MappingStops(m, fmt) == MappingQuits(C_PARSE_ERROR, <<ErrAt(m.line, fmt)>>)

\* The xmlNode at a line, as add_error_at_node uses it.
NodeAt(line) == [line |-> line]

\* process_mapping after the copy of the name into the field: the V4L2
\* fields and the remaining UVC fields.
MappingFields(m, controls, control, field, id, v4l2, size, offset, uvc) ==
    IF ~id.ok
    THEN MappingStops(NodeAt(m.v4l2Line),
             "V4L2 ID contains invalid number or references unknown constant: '%s'")
    ELSE IF v4l2 = "0"
    THEN MappingStops(NodeAt(m.v4l2Line), "Invalid V4L2 control type specified: '%s'")
    ELSE IF ~size.ok
    THEN MappingStops(NodeAt(m.v4l2Line), "Invalid UVC control size specified: '%s'")
    ELSE IF ~offset.ok
    THEN MappingStops(NodeAt(m.v4l2Line), "Invalid UVC control offset specified: '%s'")
    ELSE IF uvc = "-1"
    THEN MappingStops(NodeAt(m.v4l2Line), "Invalid UVC control type specified: '%s'")
    ELSE [send |-> TRUE, ret |-> C_SUCCESS,
          mapping |-> [id |-> id.value,
                       name |-> field,
                       entity |-> controls[control].entity,
                       selector |-> controls[control].selector,
                       size |-> size.value, offset |-> offset.value,
                       v4l2_type |-> v4l2, data_type |-> uvc],
          msgs |-> << >>, read |-> 0]

\* process_mapping before its ioctl, for the control looked up and the
\* fields read: [send, ret, mapping, msgs].  The errors about the control
\* reference are logged at node_uvc and node_control_ref, the one about the
\* name at node_mapping, and all later ones at node_v4l2.
BuildMapping(m, controls, control, name, id, v4l2, size, offset, uvc) ==
    IF ~m.hasV4l2 THEN MappingQuits(C_NOT_IMPLEMENTED, << >>)
    ELSE IF ~m.hasUvc
    THEN MappingStops(m, "Mapping does not have UVC information. <uvc> is mandatory.")
    ELSE IF ~m.hasControlRef
    THEN MappingStops(NodeAt(m.uvcLine),
                      "Control reference missing. <control_ref> is mandatory.")
    ELSE IF m.idref = NoText
    THEN MappingStops(NodeAt(m.refLine),
             "Invalid control reference. 'idref' attribute referencing a <control> is mandatory.")
    ELSE IF control = 0
    THEN MappingStops(NodeAt(m.refLine),
             "Invalid control reference: control with ID '%s' could not be found.")
    ELSE IF name = NULL
    THEN MappingStops(m, "Control mapping has no name. <name> is mandatory.")
    ELSE [MappingFields(m, controls, control, copy_name(name).field, id, v4l2, size,
                        offset, uvc)
             EXCEPT !.read = copy_name(name).read]

\* process_mapping before its ioctl.
resolve_mapping(m, controls, constants) ==
    BuildMapping(m, controls, lookup_control(controls, m.idref),
                 unicode_to_normalized_ascii(m.name),
                 lookup_or_convert_to_integer(m.v4l2_id, constants),
                 get_v4l2_ctrl_type_by_name(m.v4l2_type),
                 is_valid_size_string(unicode_to_ascii(m.size), 255),
                 is_valid_size_string(unicode_to_ascii(m.offset), 255),
                 get_uvc_ctrl_type_by_name(m.uvc_type))

\* A test that takes every non-zero return as an error.
ioctl_failed_Strict(errno, pass, ignore) == errno # "0"

\* The test after UVCIOC_CTRL_ADD and UVCIOC_CTRL_MAP: a non-zero return is
\* an error, except that a build with DYNCTRL_IGNORE_EEXIST_AFTER_PASS1
\* lets EEXIST pass after the first pass.
ioctl_failed(errno, pass, ignore) ==
    /\ errno # "0"
    /\ (ignore => (pass = 1 \/ errno # "EEXIST"))

\* A probe that takes every outcome but EPERM as support.
device_supports_dynctrl_Lenient(errno) ==
    IF errno = "EPERM" THEN C_CANNOT_WRITE ELSE C_SUCCESS

\* device_supports_dynctrl: the result for the outcome of the probe ioctl.
device_supports_dynctrl(errno) ==
    IF errno = "EPERM" THEN C_CANNOT_WRITE
    ELSE IF errno = "EEXIST" THEN C_SUCCESS
    ELSE C_NOT_IMPLEMENTED

(***************************************************************************)
(* The session: c_add_control_mappings_from_file.                          *)
(***************************************************************************)
VARIABLES
    initialized,        \* the library's initialized flag
    file_name,          \* 0 for a NULL file name, else the position of the file in Docs
    info,               \* the caller's CDynctrlInfo (present = FALSE: NULL was passed)
    ignore_eexist,      \* the build defines DYNCTRL_IGNORE_EEXIST_AFTER_PASS1
    devices,            \* the array filled by c_enum_devices
    xml_doc,            \* 0 (NULL) or the position in Docs of the parsed document
    ctx,                \* the ParseContext
    i,                  \* index of the device loop (1-based)
    successful_devices, \* devices for which add_control_mappings returned C_SUCCESS
    ret,                \* the local ret of c_add_control_mappings_from_file
    pc,                 \* position in the code
    k,                  \* position of the next declaration of the section being walked
    calls,              \* the calls made to the collaborators so far, with their results
    processed,          \* the declarations processed so far, with the results returned
    resolve,            \* one call of lookup_or_convert_to_integer / _to_guid
    decl,               \* one call of process_control / process_mapping
    buffer,             \* the memory block info->messages points to
    ndebug,             \* the build defines NDEBUG: assert() expands to nothing
    first,              \* what an earlier session of the same process did
    stdout              \* what the uvcdynctrl front end has printed

vars == <<initialized, file_name, info, ignore_eexist, devices, xml_doc, ctx, i,
          successful_devices, ret, pc, k, calls, processed, resolve, decl, buffer,
          ndebug, first, stdout>>

\* A ParseContext after memset(ctx, 0, sizeof(*ctx)).
ZeroCtx ==
    [constants |-> << >>, controls |-> << >>, handle |-> 0, v4l2_handle |-> 0,
     pass |-> 0]

\* What a caller can pass as info: NULL, or a zeroed structure with or
\* without CD_REPORT_ERRORS.
InfoChoices ==
    {[present |-> p, flags |-> f, stats |-> ZeroStats, messages |-> << >>,
      meta |-> ZeroMeta] :
        <<p, f>> \in {<<FALSE, {}>>, <<TRUE, {}>>, <<TRUE, {CD_REPORT_ERRORS}>>}}

\* The drivers c_enum_devices can report for a device.
Drivers == {"uvcvideo", "other"}

\* The device arrays c_enum_devices can fill: up to MaxDevices devices.
DeviceArrays ==
    UNION {[1..n -> [driver : Drivers]] : n \in 0..MaxDevices}

\* errno of the probe ioctl ("0": the ioctl returned 0).
ProbeOutcomes == {"0", "EEXIST", "EPERM", "EINVAL"}

\* errno of UVCIOC_CTRL_ADD and UVCIOC_CTRL_MAP ("0": the ioctl returned 0).
TransportOutcomes == {"0", "EEXIST", "EINVAL"}

NoArg == [id |-> NoText]

\* A call to a collaborator: the operation, the device it is made for (0: none),
\* its result and the structure passed.
Call(op, dev, res, arg) == [op |-> op, dev |-> dev, res |-> res, arg |-> arg]

\* The document being processed.
Doc == Files[xml_doc]

\* A walk that leaves the constants after the first of them.
NextDecl_OneConstant(d, section, pos) ==
    IF section \in {"meta", "after_meta"} /\ 1 <= Len(d.constants)
    THEN <<"constants", 1>>
    ELSE IF section # "mappings"
            /\ (IF section = "controls" THEN pos ELSE 1) <= Len(d.controls)
    THEN <<"controls", IF section = "controls" THEN pos ELSE 1>>
    ELSE IF (IF section = "mappings" THEN pos ELSE 1) <= Len(d.mappings)
    THEN <<"mappings", IF section = "mappings" THEN pos ELSE 1>>
    ELSE <<"pass_done", 0>>

\* The first section at or after `section` that still has a declaration at
\* position pos, as <<pc, k>>; the end of the pass when there is none.  It is
\* how process_meta and the loops of process_constants, process_devices and
\* process_mappings follow one another in process_dynctrl_doc.  The walk
\* stops at the call of process_meta, process_constants or process_mappings
\* for a section the document lacks (null_meta, null_constants,
\* null_mappings): the node passed is NULL.  The sections after_meta and
\* after_constants are the points where the walk goes on when such a call
\* returned.  A document without <devices> has no control: the while loop
\* over the <devices> nodes is not entered.
NextDecl(d, section, pos) ==
    IF section = "meta" /\ "meta" \notin d.sections THEN <<"null_meta", 0>>
    ELSE IF section \in {"meta", "after_meta"} /\ "constants" \notin d.sections
    THEN <<"null_constants", 0>>
    ELSE IF section \in {"meta", "after_meta", "constants"}
            /\ (IF section = "constants" THEN pos ELSE 1) <= Len(d.constants)
    THEN <<"constants", IF section = "constants" THEN pos ELSE 1>>
    ELSE IF section # "mappings"
            /\ (IF section = "controls" THEN pos ELSE 1) <= Len(d.controls)
    THEN <<"controls", IF section = "controls" THEN pos ELSE 1>>
    ELSE IF section # "mappings" /\ "mappings" \notin d.sections
    THEN <<"null_mappings", 0>>
    ELSE IF (IF section = "mappings" THEN pos ELSE 1) <= Len(d.mappings)
    THEN <<"mappings", IF section = "mappings" THEN pos ELSE 1>>
    ELSE <<"pass_done", 0>>

\* No call of a lookup function is being looked at: the text, the caller's
\* integer before and after the call, the caller's GUID buffer after it, and
\* the result.
IdleResolve ==
    [fn |-> "none", text |-> NULL, value0 |-> 0, value |-> 0, guid |-> ZeroGuid,
     ret |-> C_SUCCESS]

\* No earlier session.
NoSession == [calls |-> << >>, devices |-> << >>, ret |-> C_SUCCESS, pc |-> "none"]

\* No call of process_control or process_mapping is being looked at.
IdleDecl == [kind |-> "none", node |-> NoArg, ret |-> C_SUCCESS, read |-> 0]

\* The block of a log without messages: info->messages is NULL and
\* ctx->messages_size is 0.
EmptyBuffer == << >>

\* The state at the call of c_add_control_mappings_from_file with one of the
\* files of Docs.  These files have all their sections, so that no assertion
\* of the session fails and a build with NDEBUG behaves like one without:
\* one build stands for both.
Init ==
    /\ initialized \in BOOLEAN
    /\ file_name \in 0..Len(Docs)
    /\ info \in InfoChoices
    /\ ignore_eexist \in BOOLEAN
    /\ devices = << >>
    /\ xml_doc = 0
    /\ ctx = ZeroCtx
    /\ i = 0
    /\ successful_devices = 0
    /\ ret = C_SUCCESS
    /\ pc = "start"
    /\ k = 0
    /\ calls = << >>
    /\ processed = << >>
    /\ resolve = IdleResolve
    /\ decl = IdleDecl
    /\ buffer = EmptyBuffer
    /\ ndebug = FALSE
    /\ first = NoSession
    /\ stdout = << >>

\* The argument checks: C_INIT_ERROR, C_INVALID_ARG.
CheckArgs ==
    /\ pc = "start"
    /\ IF ~initialized THEN ret' = C_INIT_ERROR /\ pc' = "done"
       ELSE IF file_name = 0 THEN ret' = C_INVALID_ARG /\ pc' = "done"
       ELSE ret' = ret /\ pc' = "enum"
    /\ UNCHANGED <<resolve, decl, buffer, ndebug, first, stdout>>
    /\ UNCHANGED <<initialized, file_name, info, ignore_eexist, devices, xml_doc,
                   ctx, i, successful_devices, k, calls, processed>>

\* An enumeration after which the file is parsed whatever the number of
\* devices.
after_enum_Parse(device_count) == "parse"

\* Where c_add_control_mappings_from_file goes on after the first call of
\* c_enum_devices: it returns when the zero-sized buffer was large enough
\* (no device), and goes on to parse the file otherwise.
after_enum(device_count) == IF device_count = 0 THEN "done" ELSE "parse"

\* c_enum_devices: without devices the function returns C_INVALID_DEVICE at
\* once; otherwise the array is filled and the context allocated.
EnumDevices ==
    /\ pc = "enum"
    /\ \E ds \in DeviceArrays :
        /\ devices' = ds
        /\ calls' = Append(calls, Call("c_enum_devices", 0, "0", NoArg))
        /\ ret' = IF Len(ds) = 0 THEN C_INVALID_DEVICE ELSE C_SUCCESS
        /\ pc' = after_enum(Len(ds))
    /\ ctx' = ZeroCtx
    /\ UNCHANGED <<resolve, decl, buffer, ndebug, first, stdout>>
    /\ UNCHANGED <<initialized, file_name, info, ignore_eexist, xml_doc, i,
                   successful_devices, k, processed>>

\* A parse result that ignores what the XML parser said.
parse_result_Always(wellFormed) == C_SUCCESS

\* parse_dynctrl_file: the result for a file the XML parser could or could
\* not read.
parse_result(wellFormed) == IF wellFormed THEN C_SUCCESS ELSE C_PARSE_ERROR

\* parse_dynctrl_file: the error logged when the parser could not read the
\* file d, with the position the parser reports.
parse_messages(d) ==
    IF d.wellFormed THEN << >>
    ELSE <<Msg(d.errLine, d.errCol, CD_SEVERITY_ERROR,
               "Malformed control mapping file encountered. Unable to parse: %s", 0)>>

\* parse_dynctrl_file and the test of its result: on an error the function
\* goes to its done label, otherwise it enters the device loop.
ParseFile ==
    /\ pc = "parse"
    /\ calls' = Append(calls, Call("xmlCtxtReadFile", 0,
                                   IF Files[file_name].wellFormed THEN "0" ELSE "error",
                                   NoArg))
    /\ info' = add_messages(info, parse_messages(Files[file_name]))
    /\ xml_doc' = IF Files[file_name].wellFormed THEN file_name ELSE 0
    /\ ret' = parse_result(Files[file_name].wellFormed)
    /\ IF parse_result(Files[file_name].wellFormed) # C_SUCCESS
       THEN pc' = "cleanup" /\ i' = i
       ELSE pc' = "loop" /\ i' = 1
    /\ successful_devices' = 0
    /\ UNCHANGED <<resolve, decl, buffer, ndebug, first, stdout>>
    /\ UNCHANGED <<initialized, file_name, ignore_eexist, devices, ctx, k, processed>>

\* A result after the device loop computed without the test for zero
\* successful devices.
final_result_NoTest(n, r) == r

\* The result after the device loop: without a successful device it is
\* C_INVALID_DEVICE, otherwise ret keeps the value the last call of
\* add_control_mappings gave it.
final_result(n, r) == IF n = 0 THEN C_INVALID_DEVICE ELSE r

\* The end of the device loop.
LoopExit ==
    /\ pc = "loop"
    /\ i > Len(devices)
    /\ ret' = final_result(successful_devices, ret)
    /\ pc' = "cleanup"
    /\ UNCHANGED <<resolve, decl, buffer, ndebug, first, stdout>>
    /\ UNCHANGED <<initialized, file_name, info, ignore_eexist, devices, xml_doc,
                   ctx, i, successful_devices, k, calls, processed>>

\* A device whose driver is not uvcvideo is skipped with an info message.
SkipNonUVC ==
    /\ pc = "loop"
    /\ i <= Len(devices)
    /\ devices[i].driver # "uvcvideo"
    /\ info' = add_message_v(info,
                 Msg(0, 0, CD_SEVERITY_INFO,
                     "device '%s' skipped because it is not a UVC device.", i))
    /\ i' = i + 1
    /\ UNCHANGED <<resolve, decl, buffer, ndebug, first, stdout>>
    /\ UNCHANGED <<initialized, file_name, ignore_eexist, devices, xml_doc, ctx,
                   successful_devices, ret, pc, k, calls, processed>>

\* c_open_device: a device that cannot be opened is skipped with an error.
OpenDevice ==
    /\ pc = "loop"
    /\ i <= Len(devices)
    /\ devices[i].driver = "uvcvideo"
    /\ \E ok \in BOOLEAN :
        /\ calls' = Append(calls, Call("c_open_device", i,
                                       IF ok THEN "0" ELSE "error", NoArg))
        /\ IF ok
           THEN /\ ctx' = [ctx EXCEPT !.handle = i]
                /\ pc' = "open_v4l2"
                /\ i' = i
                /\ info' = info
           ELSE /\ ctx' = [ctx EXCEPT !.handle = 0]
                /\ pc' = pc
                /\ i' = i + 1
                /\ info' = add_message_v(info,
                             Err("device '%s' skipped because it could not be opened.", i))
    /\ UNCHANGED <<resolve, decl, buffer, ndebug, first, stdout>>
    /\ UNCHANGED <<initialized, file_name, ignore_eexist, devices, xml_doc,
                   successful_devices, ret, k, processed>>

\* add_control_mappings: open_v4l2_device.
OpenV4L2 ==
    /\ pc = "open_v4l2"
    /\ \E ok \in BOOLEAN :
        /\ calls' = Append(calls, Call("open_v4l2_device", i,
                                       IF ok THEN "0" ELSE "error", NoArg))
        /\ IF ok
           THEN /\ ctx' = [ctx EXCEPT !.v4l2_handle = i]
                /\ ret' = C_SUCCESS
                /\ pc' = "probe"
           ELSE /\ ctx' = [ctx EXCEPT !.v4l2_handle = 0]
                /\ ret' = C_INVALID_DEVICE
                /\ pc' = "amc_done"
    /\ UNCHANGED <<resolve, decl, buffer, ndebug, first, stdout>>
    /\ UNCHANGED <<initialized, file_name, info, ignore_eexist, devices, xml_doc,
                   i, successful_devices, k, processed>>

\* add_control_mappings: device_supports_dynctrl and the test of its result.
Probe ==
    /\ pc = "probe"
    /\ \E errno \in ProbeOutcomes :
        /\ calls' = Append(calls, Call("UVCIOC_CTRL_ADD probe", i, errno, NoArg))
        /\ ret' = device_supports_dynctrl(errno)
        /\ pc' = IF device_supports_dynctrl(errno) # C_SUCCESS THEN "amc_done" ELSE "doc"
    /\ UNCHANGED <<resolve, decl, buffer, ndebug, first, stdout>>
    /\ UNCHANGED <<initialized, file_name, info, ignore_eexist, devices, xml_doc,
                   ctx, i, successful_devices, k, processed>>

\* A first section chosen without looking at the pass counter.
FirstSection_EveryPass(pass) == "meta"

\* The section a pass starts with: the first pass processes <meta> and
\* <constants>, every other pass starts with the <devices>.
FirstSection(pass) == IF pass = 1 THEN "meta" ELSE "controls"

\* process_dynctrl_doc at position n of the document.
EnterDoc(n) == pc' = n[1] /\ k' = n[2]

\* A pass counter that process_dynctrl_doc leaves as it is.
next_pass_Same(pass) == pass

\* ctx->pass++ at the start of process_dynctrl_doc.
next_pass(pass) == pass + 1

\* What a read of node->children through a NULL node can end in: the
\* process is killed by SIGSEGV, or the read yields 0 and the caller finds
\* no child.
NullReads == {"SIGSEGV", "0"}

\* process_meta reads the children of its node only for a caller that asked
\* for the meta information.
ReadsMeta(inf) == inf.present /\ CD_RETRIEVE_META_INFO \in inf.flags

\* The end of the process: no statement of the program follows.
Killed(signal) == pc' = signal /\ k' = 0

\* The text string_to_version converts when its string is NULL and the read
\* through it yielded 0: an empty string.
VersionText(string) == IF string = NULL THEN << >> ELSE string

\* info after process_meta stored the texts of node_meta.
StoreMeta(inf, node_meta) ==
    [inf EXCEPT !.meta =
        [version |-> string_to_version(VersionText(node_meta.version)),
         revision |-> string_to_version(VersionText(node_meta.revision)),
         author |-> unicode_to_normalized_ascii(node_meta.author),
         contact |-> unicode_to_ascii(node_meta.contact),
         copyright |-> unicode_to_ascii(node_meta.copyright)]]

\* process_meta of a <meta> node: the ways the call can end, as
\* [signal, info] ("none": the call returned C_SUCCESS).  Nothing is read
\* unless the caller asked for the meta information.  string_to_version
\* asserts its string, which is NULL when <version> or <revision> is
\* missing; without assertions strtol reads through the NULL pointer.
process_meta(inf, node_meta, nd) ==
    IF ~ReadsMeta(inf) THEN {[signal |-> "none", info |-> inf]}
    ELSE IF NULL \notin {node_meta.version, node_meta.revision}
    THEN {[signal |-> "none", info |-> StoreMeta(inf, node_meta)]}
    ELSE IF ~nd THEN {[signal |-> "SIGABRT", info |-> inf]}
    ELSE {[signal |-> IF read = "0" THEN "none" ELSE read,
           info |-> IF read = "0" THEN StoreMeta(inf, node_meta) ELSE inf] :
             read \in NullReads}

\* The first pass of process_dynctrl_doc over a document with a <meta>
\* node: process_meta, then the first declaration.
FirstPass ==
    \E o \in process_meta(info, Doc.meta, ndebug) :
        /\ info' = o.info
        /\ IF o.signal = "none" THEN EnterDoc(NextDecl(Doc, "meta", 1))
           ELSE Killed(o.signal)

\* process_dynctrl_doc up to its first declaration: without a document it
\* returns C_INVALID_ARG; otherwise the pass counter is incremented and, in
\* the first pass, process_meta is called.
BeginPass ==
    /\ pc = "doc"
    /\ IF xml_doc = 0
       THEN ret' = C_INVALID_ARG /\ pc' = "amc_done" /\ UNCHANGED <<ctx, k, info>>
       ELSE /\ ctx' = [ctx EXCEPT !.pass = next_pass(@)]
            /\ ret' = ret
            /\ IF FirstSection(next_pass(ctx.pass)) = "meta" /\ "meta" \in Doc.sections
               THEN FirstPass
               ELSE /\ EnterDoc(NextDecl(Doc, FirstSection(next_pass(ctx.pass)), 1))
                    /\ info' = info
    /\ UNCHANGED <<resolve, decl, buffer, ndebug, first, stdout>>
    /\ UNCHANGED <<initialized, file_name, ignore_eexist, devices, xml_doc,
                   i, successful_devices, calls, processed>>

\* A declaration processed in the current pass, with the result returned.
Processed(kind, pos, r) == [pass |-> ctx.pass, kind |-> kind, k |-> pos, ret |-> r]

\* A walk that leaves the pass at the first declaration that returned an
\* error.
AfterDecl_Break(d, section, pos, r) ==
    IF r = C_SUCCESS THEN NextDecl(d, section, pos + 1) ELSE <<"pass_done", 0>>

\* The position after declaration pos of a section: the loops of
\* process_constants, process_controls and process_mappings go on to the
\* next sibling whatever the declaration returned.
AfterDecl(d, section, pos, r) == NextDecl(d, section, pos + 1)

\* The loop of a section after declaration pos returned r: the result is
\* recorded and the walk goes on at position n.
Advance(kind, r, n) ==
    /\ processed' = Append(processed, Processed(kind, k, r))
    /\ pc' = n[1]
    /\ k' = n[2]

\* process_constants after process_constant returned r.
ConstantStep(r) ==
    /\ ctx' = [ctx EXCEPT !.constants = r.constants]
    /\ info' = count_constant(add_messages(info, r.msgs), r.ret)
    /\ Advance("constant", r.ret, AfterDecl(Doc, "constants", k, r.ret))

\* One turn of the loop of process_constants.
ProcessConstant ==
    /\ pc = "constants"
    /\ ConstantStep(process_constant(Doc.constants[k], ctx.constants))
    /\ UNCHANGED <<resolve, decl, buffer, ndebug, first, stdout>>
    /\ UNCHANGED <<initialized, file_name, ignore_eexist, devices, xml_doc, i,
                   successful_devices, ret, calls>>

\* What process_control returns after its ioctl ended with errno.
control_result(errno, pass, ignore) ==
    IF ioctl_failed(errno, pass, ignore) THEN C_V4L2_ERROR ELSE C_SUCCESS

\* The error process_control logs when its ioctl failed.
control_messages(errno, pass, ignore, dev) ==
    IF ioctl_failed(errno, pass, ignore)
    THEN <<Err("%s: unable to add control with GUID {%s} and selector %d. ioctl(UVCIOC_CTRL_ADD) failed with return value %d (error %d: %s)",
               dev)>>
    ELSE << >>

\* A list of controls that takes in only what the driver accepted.
add_control_OnSuccess(controls, xu, result) ==
    IF result = C_SUCCESS THEN <<xu>> \o controls ELSE controls

\* The list ctx->controls after process_control sent the control xu: it is
\* put at the head whether or not the ioctl succeeded.
add_control(controls, xu, result) == <<xu>> \o controls

\* process_controls for a control resolved to r: the ioctl if the control
\* reaches it, the list of controls, and the counting of the result.
ControlStep(r) ==
    IF ~r.send
    THEN /\ info' = count_control(add_messages(info, r.msgs), r.ret)
         /\ Advance("control", r.ret, AfterDecl(Doc, "controls", k, r.ret))
         /\ UNCHANGED <<ctx, calls>>
    ELSE \E errno \in TransportOutcomes :
         /\ calls' = Append(calls, Call("UVCIOC_CTRL_ADD", ctx.v4l2_handle, errno, r.xu))
         /\ ctx' = [ctx EXCEPT !.controls =
                       add_control(@, r.xu, control_result(errno, ctx.pass, ignore_eexist))]
         /\ info' = count_control(
                        add_messages(info,
                            r.msgs \o control_messages(errno, ctx.pass, ignore_eexist,
                                                       ctx.handle)),
                        control_result(errno, ctx.pass, ignore_eexist))
         /\ Advance("control", control_result(errno, ctx.pass, ignore_eexist),
                    AfterDecl(Doc, "controls", k,
                              control_result(errno, ctx.pass, ignore_eexist)))

\* One turn of the loop of process_controls.
ProcessControl ==
    /\ pc = "controls"
    /\ ControlStep(resolve_control(Doc.controls[k], ctx.constants))
    /\ UNCHANGED <<resolve, decl, buffer, ndebug, first, stdout>>
    /\ UNCHANGED <<initialized, file_name, ignore_eexist, devices, xml_doc, i,
                   successful_devices, ret>>

\* What process_mapping returns after its ioctl ended with errno.
mapping_result(errno, pass, ignore) ==
    IF ioctl_failed(errno, pass, ignore) THEN C_V4L2_ERROR ELSE C_SUCCESS

\* The error process_mapping logs when its ioctl failed.
mapping_messages(errno, pass, ignore, dev) ==
    IF ioctl_failed(errno, pass, ignore)
    THEN <<Err("%s: unable to map '%s' control. ioctl(UVCIOC_CTRL_MAP) failed with return value %d (error %d: %s)",
               dev)>>
    ELSE << >>

\* process_mappings for a mapping resolved to r: the ioctl if the mapping
\* reaches it, and the counting of the result.
MappingStep(r) ==
    IF ~r.send
    THEN /\ info' = count_mapping(add_messages(info, r.msgs), r.ret)
         /\ Advance("mapping", r.ret, AfterDecl(Doc, "mappings", k, r.ret))
         /\ UNCHANGED calls
    ELSE \E errno \in TransportOutcomes :
         /\ calls' = Append(calls, Call("UVCIOC_CTRL_MAP", ctx.v4l2_handle, errno,
                                        r.mapping))
         /\ info' = count_mapping(
                        add_messages(info,
                            mapping_messages(errno, ctx.pass, ignore_eexist, ctx.handle)),
                        mapping_result(errno, ctx.pass, ignore_eexist))
         /\ Advance("mapping", mapping_result(errno, ctx.pass, ignore_eexist),
                    AfterDecl(Doc, "mappings", k,
                              mapping_result(errno, ctx.pass, ignore_eexist)))

\* One turn of the loop of process_mappings.
ProcessMapping ==
    /\ pc = "mappings"
    /\ MappingStep(resolve_mapping(Doc.mappings[k], ctx.controls, ctx.constants))
    /\ UNCHANGED <<resolve, decl, buffer, ndebug, first, stdout>>
    /\ UNCHANGED <<initialized, file_name, ignore_eexist, devices, xml_doc, ctx, i,
                   successful_devices, ret>>

\* The end of process_dynctrl_doc: it returns what process_mappings
\* returned, which is C_SUCCESS.
\* A pass that returns what its last declaration returned.
pass_result_LastDeclaration(last) == last

\* What process_dynctrl_doc returns at its end: the result of
\* process_mappings, which is C_SUCCESS whatever the last declaration
\* returned.
pass_result(last) == C_SUCCESS

\* The end of process_dynctrl_doc.
EndPass ==
    /\ pc = "pass_done"
    /\ ret' = pass_result(IF processed = << >> THEN C_SUCCESS
                          ELSE processed[Len(processed)].ret)
    /\ pc' = "amc_done"
    /\ UNCHANGED <<resolve, decl, buffer, ndebug, first, stdout>>
    /\ UNCHANGED <<initialized, file_name, info, ignore_eexist, devices, xml_doc,
                   ctx, i, successful_devices, k, calls, processed>>

\* A done label that leaves the V4L2 handle as it is.
close_v4l2_Never(v4l2_handle) == << >>

\* The calls of the done label of add_control_mappings for the V4L2 handle
\* of the context: close, if the handle is open.
close_v4l2(v4l2_handle) ==
    IF v4l2_handle # 0 THEN <<Call("close", v4l2_handle, "0", NoArg)>> ELSE << >>

\* The done label of add_control_mappings: the V4L2 handle is closed if it
\* is open.
CloseV4L2 ==
    /\ pc = "amc_done"
    /\ calls' = calls \o close_v4l2(ctx.v4l2_handle)
    /\ ctx' = [ctx EXCEPT !.v4l2_handle = 0]
    /\ pc' = "device_result"
    /\ UNCHANGED <<resolve, decl, buffer, ndebug, first, stdout>>
    /\ UNCHANGED <<initialized, file_name, info, ignore_eexist, devices, xml_doc,
                   i, successful_devices, ret, k, processed>>

\* The message the device loop logs for the result of add_control_mappings;
\* none for C_SUCCESS.
device_messages(r, dev) ==
    IF r = C_SUCCESS THEN << >>
    ELSE IF r = C_NOT_IMPLEMENTED
    THEN <<Err("device '%s' skipped because the driver '%s' behind it does not seem to support dynamic controls.", dev)>>
    ELSE IF r = C_CANNOT_WRITE
    THEN <<Err("device '%s' skipped because you do not have the right permissions. Newer driver versions require root permissions.", dev)>>
    ELSE <<Err("device '%s' was not processed successfully: %s. (Code: %d)", dev)>>

\* A count that takes in every device, whatever add_control_mappings
\* returned.
count_device_Every(n, r) == n + 1

\* The count of successful devices after a device whose
\* add_control_mappings returned r.
count_device(n, r) == IF r = C_SUCCESS THEN n + 1 ELSE n

\* The device loop after add_control_mappings: the result is counted or
\* logged, the device closed, and the loop goes on with the next device.
DeviceResult ==
    /\ pc = "device_result"
    /\ successful_devices' = count_device(successful_devices, ret)
    /\ info' = add_messages(info, device_messages(ret, i))
    /\ calls' = Append(calls, Call("c_close_device", ctx.handle, "0", NoArg))
    /\ ctx' = [ctx EXCEPT !.handle = 0]
    /\ i' = i + 1
    /\ pc' = "loop"
    /\ UNCHANGED <<resolve, decl, buffer, ndebug, first, stdout>>
    /\ UNCHANGED <<initialized, file_name, ignore_eexist, devices, xml_doc, ret,
                   k, processed>>

\* The done label of c_add_control_mappings_from_file: the document, the
\* lists of the context and the context are freed, and ret is returned.
Cleanup ==
    /\ pc = "cleanup"
    /\ xml_doc' = 0
    /\ ctx' = ZeroCtx
    /\ pc' = "done"
    /\ UNCHANGED <<resolve, decl, buffer, ndebug, first, stdout>>
    /\ UNCHANGED <<initialized, file_name, info, ignore_eexist, devices, i,
                   successful_devices, ret, k, calls, processed>>

Next ==
    \/ CheckArgs
    \/ EnumDevices
    \/ ParseFile
    \/ LoopExit
    \/ SkipNonUVC
    \/ OpenDevice
    \/ OpenV4L2
    \/ Probe
    \/ BeginPass
    \/ ProcessConstant
    \/ ProcessControl
    \/ ProcessMapping
    \/ EndPass
    \/ CloseV4L2
    \/ DeviceResult
    \/ Cleanup

Spec == Init /\ [][Next]_vars

\* The same sessions, for the statements about the order of the steps of
\* c_add_control_mappings_from_file: the enumeration, the handles, the probe
\* and the sections of a pass.
SpecSteps == Init /\ [][Next]_vars

(***************************************************************************)
(* The session for files that lack a top-level section.                    *)
(***************************************************************************)
\* Where process_dynctrl_doc goes on after the call at `at` returned.
AfterNull(at) ==
    IF at = "null_meta" THEN NextDecl(Doc, "after_meta", 1)
    ELSE IF at = "null_constants" THEN NextDecl(Doc, "after_constants", 1)
    ELSE <<"pass_done", 0>>

\* process_meta, process_constants or process_mappings called with the NULL
\* that xml_get_first_child_by_name returned for a missing section.  The
\* assert on the node aborts the process.  Without assertions process_meta
\* returns at once unless the caller asked for the meta information, and
\* every other path calls xml_get_first_child_by_name with the NULL node,
\* which reads node->children.
NullNode ==
    /\ pc \in {"null_meta", "null_constants", "null_mappings"}
    /\ IF ~ndebug THEN Killed("SIGABRT")
       ELSE IF pc = "null_meta" /\ ~ReadsMeta(info) THEN EnterDoc(AfterNull(pc))
       ELSE \E read \in NullReads :
               IF read = "SIGSEGV" THEN Killed("SIGSEGV") ELSE EnterDoc(AfterNull(pc))
    /\ UNCHANGED <<initialized, file_name, info, ignore_eexist, devices, xml_doc, ctx,
                   i, successful_devices, ret, calls, processed, resolve, decl, buffer,
                   ndebug, first, stdout>>

\* A session of an initialized library for a file that lacks a section, in
\* a build with or without assertions.
InitSections ==
    /\ initialized = TRUE
    /\ file_name \in (Len(Docs) + 1)..(Len(Docs) + Len(SectionDocs))
    /\ info \in InfoChoices
    /\ ignore_eexist \in BOOLEAN
    /\ devices = << >>
    /\ xml_doc = 0
    /\ ctx = ZeroCtx
    /\ i = 0
    /\ successful_devices = 0
    /\ ret = C_SUCCESS
    /\ pc = "start"
    /\ k = 0
    /\ calls = << >>
    /\ processed = << >>
    /\ resolve = IdleResolve
    /\ decl = IdleDecl
    /\ buffer = EmptyBuffer
    /\ ndebug \in BOOLEAN
    /\ first = NoSession
    /\ stdout = << >>

NextSections ==
    \/ Next
    \/ NullNode

SpecSections == InitSections /\ [][NextSections]_vars

(***************************************************************************)
(* One call of process_meta.                                               *)
(***************************************************************************)
CD_DONT_VALIDATE == "CD_DONT_VALIDATE"

\* What a caller can pass as info: NULL, or a zeroed structure with any of
\* the flags set.
OptionChoices ==
    InfoChoices \cup
    {[present |-> TRUE, flags |-> f, stats |-> ZeroStats, messages |-> << >>,
      meta |-> ZeroMeta] :
        f \in SUBSET {CD_REPORT_ERRORS, CD_RETRIEVE_META_INFO, CD_DONT_VALIDATE}}

\* The longest author text.
MaxAuthor == 6

\* The characters of an author text: two kinds of whitespace, two letters.
AuthorChars == {" ", "\t", "a", "b"}

\* The texts of <author>: every text of up to MaxAuthor characters, and no
\* <author> at all.
AuthorTexts == UNION {[1..n -> AuthorChars] : n \in 0..MaxAuthor} \cup {NULL}

\* The <meta> nodes of a call: every author, and a node without <version>
\* or without <revision>.
MetaDecls ==
    {[kind |-> "meta", node |-> [FullMeta EXCEPT !.author = a], ret |-> C_SUCCESS,
      read |-> 0] : a \in AuthorTexts}
    \cup
    {[kind |-> "meta", node |-> m, ret |-> C_SUCCESS, read |-> 0] :
        m \in {[FullMeta EXCEPT !.version = NULL], [FullMeta EXCEPT !.revision = NULL]}}

InitMeta ==
    /\ initialized = TRUE
    /\ file_name = 0
    /\ info \in {inf \in OptionChoices : inf.flags \subseteq {CD_RETRIEVE_META_INFO}}
    /\ ignore_eexist = FALSE
    /\ devices = <<[driver |-> "uvcvideo"]>>
    /\ xml_doc = 0
    /\ ctx = [ZeroCtx EXCEPT !.handle = 1, !.v4l2_handle = 1, !.pass = 1]
    /\ i = 1
    /\ successful_devices = 0
    /\ ret = C_SUCCESS
    /\ pc = "declare"
    /\ k = 0
    /\ calls = << >>
    /\ processed = << >>
    /\ resolve = IdleResolve
    /\ decl \in MetaDecls
    /\ buffer = EmptyBuffer
    /\ ndebug \in BOOLEAN
    /\ first = NoSession
    /\ stdout = << >>

\* A call of process_meta.
DeclareMeta ==
    /\ pc = "declare"
    /\ decl.kind = "meta"
    /\ \E o \in process_meta(info, decl.node, ndebug) :
          /\ info' = o.info
          /\ pc' = IF o.signal = "none" THEN "declared" ELSE o.signal
    /\ UNCHANGED <<initialized, file_name, ignore_eexist, devices, xml_doc, ctx, i,
                   successful_devices, ret, k, calls, processed, resolve, decl, buffer,
                   ndebug, first, stdout>>

NextMeta == DeclareMeta

SpecMeta == InitMeta /\ [][NextMeta]_vars

(***************************************************************************)
(* The uvcdynctrl front end importing a file: add_control_mappings of      *)
(* main.c calls c_add_control_mappings_from_file and prints what the info  *)
(* structure holds afterwards.                                             *)
(***************************************************************************)
\* HAS_VERBOSE(): -v was given. The front end sets CD_RETRIEVE_META_INFO
\* exactly then, and nothing else changes the flags.
HAS_VERBOSE == CD_RETRIEVE_META_INFO \in info.flags

\* The info structure the front end passes: zeroed, CD_REPORT_ERRORS set, and
\* CD_RETRIEVE_META_INFO set when -v was given.
FrontInfo(verbose) ==
    [present |-> TRUE,
     flags |-> IF verbose THEN {CD_REPORT_ERRORS, CD_RETRIEVE_META_INFO}
                          ELSE {CD_REPORT_ERRORS},
     stats |-> ZeroStats, messages |-> << >>, meta |-> ZeroMeta]

\* main() has called c_init() and passes the file name given with -i.
InitFront ==
    /\ initialized = TRUE
    /\ file_name \in 1..Len(Docs)
    /\ \E verbose \in BOOLEAN : info = FrontInfo(verbose)
    /\ ignore_eexist \in BOOLEAN
    /\ devices = << >>
    /\ xml_doc = 0
    /\ ctx = ZeroCtx
    /\ i = 0
    /\ successful_devices = 0
    /\ ret = C_SUCCESS
    /\ pc = "start"
    /\ k = 0
    /\ calls = << >>
    /\ processed = << >>
    /\ resolve = IdleResolve
    /\ decl = IdleDecl
    /\ buffer = EmptyBuffer
    /\ ndebug = FALSE
    /\ first = NoSession
    /\ stdout = << >>

\* One line "%u <what> processed (%u failed, %u successful)": the three
\* numbers in the order of the arguments.
StatLine(what, a, b, c) ==
    [what |-> what, processed |-> a, failed |-> b, successful |-> c]

\* The arguments as the labels of the format name them.
print_statistics_AsLabelled(stats) ==
    <<StatLine("constants", stats.constants.successful + stats.constants.failed,
               stats.constants.failed, stats.constants.successful),
      StatLine("controls", stats.controls.successful + stats.controls.failed,
               stats.controls.failed, stats.controls.successful),
      StatLine("mappings", stats.mappings.successful + stats.mappings.failed,
               stats.mappings.failed, stats.mappings.successful)>>
\* The printf of the processing statistics: for each category the arguments
\* are successful + failed, successful, failed.
print_statistics(stats) ==
    <<StatLine("constants", stats.constants.successful + stats.constants.failed,
               stats.constants.successful, stats.constants.failed),
      StatLine("controls", stats.controls.successful + stats.controls.failed,
               stats.controls.successful, stats.controls.failed),
      StatLine("mappings", stats.mappings.successful + stats.mappings.failed,
               stats.mappings.successful, stats.mappings.failed)>>

\* After the library call returned: the statistics are printed in verbose
\* mode only.
PrintStatistics ==
    /\ pc = "done"
    /\ stdout' = IF HAS_VERBOSE THEN print_statistics(info.stats) ELSE << >>
    /\ pc' = "exit"
    /\ UNCHANGED <<resolve, decl, buffer, ndebug, first>>
    /\ UNCHANGED <<initialized, file_name, info, ignore_eexist, devices, xml_doc, ctx,
                   i, successful_devices, ret, k, calls, processed>>

NextFront == Next \/ PrintStatistics

SpecFront == InitFront /\ [][NextFront]_vars

(***************************************************************************)
(* Two sessions of one process, one after the other, for the same file:    *)
(* the first without an info structure, the second with any options.  The  *)
(* collaborators answer the second session as they answered the first.     *)
(***************************************************************************)
\* The files of the two sessions: DocA and DocA without <version>.
OptionFiles == {1, Len(Files)}

\* The first session is called with info = NULL.
InitOptions ==
    /\ initialized = TRUE
    /\ file_name \in OptionFiles
    /\ info = [present |-> FALSE, flags |-> {}, stats |-> ZeroStats,
               messages |-> << >>, meta |-> ZeroMeta]
    /\ ignore_eexist \in BOOLEAN
    /\ devices = << >>
    /\ xml_doc = 0
    /\ ctx = ZeroCtx
    /\ i = 0
    /\ successful_devices = 0
    /\ ret = C_SUCCESS
    /\ pc = "start"
    /\ k = 0
    /\ calls = << >>
    /\ processed = << >>
    /\ resolve = IdleResolve
    /\ decl = IdleDecl
    /\ buffer = EmptyBuffer
    /\ ndebug \in BOOLEAN
    /\ first = NoSession
    /\ stdout = << >>

\* The collaborators answer as in the first session: c_enum_devices reports
\* the same devices, and the n-th call has the result of the first session's
\* n-th call.
Follows ==
    first # NoSession =>
        /\ devices = IF calls = << >> THEN << >> ELSE first.devices
        /\ \A j \in 1..Len(calls) :
              j <= Len(first.calls) => calls[j].res = first.calls[j].res

\* The first session returned; the caller calls
\* c_add_control_mappings_from_file again, for the same file, with an info
\* structure of its choice.
Restart ==
    /\ pc = "done"
    /\ first = NoSession
    /\ first' = [calls |-> calls, devices |-> devices, ret |-> ret, pc |-> pc]
    /\ info' \in OptionChoices
    /\ devices' = << >>
    /\ xml_doc' = 0
    /\ ctx' = ZeroCtx
    /\ i' = 0
    /\ successful_devices' = 0
    /\ ret' = C_SUCCESS
    /\ pc' = "start"
    /\ k' = 0
    /\ calls' = << >>
    /\ processed' = << >>
    /\ UNCHANGED <<initialized, file_name, ignore_eexist, resolve, decl, buffer,
                   ndebug, stdout>>

NextOptions == (Next /\ Follows') \/ Restart

SpecOptions == InitOptions /\ [][NextOptions]_vars

\* The value c_add_control_mappings_from_file returned.
Returned == pc = "done"

(***************************************************************************)
(* One call of lookup_or_convert_to_integer or lookup_or_convert_to_guid,  *)
(* for a text and a list of constants drawn from bounded sets.             *)
(***************************************************************************)
\* The longest list of constants declared before the call.
MaxConstants == 2

\* The number of families of generated GUID texts.
GuidVariants == 3

HexDigits ==
    <<"0", "1", "2", "3", "4", "5", "6", "7", "8", "9", "a", "b", "c", "d", "e", "f",
      "A", "B", "C", "D", "E", "F">>

\* A GUID text whose hexadecimal digits run through HexDigits with step m
\* from offset o.
GuidText(m, o) ==
    [p \in 1..36 |-> IF p \in {9, 14, 19, 24} THEN "-"
                     ELSE HexDigits[((p * m + o) % 22) + 1]]

GuidTexts == {GuidText(m, o) : m \in 1..GuidVariants, o \in 0..GuidVariants}

\* Texts that are almost GUIDs: one character more, one less, a hyphen
\* missing, a letter that is no hexadecimal digit.
NearGuidTexts ==
    { TxtGuid1 \o <<"x">>,
      TxtGuid2 \o <<"0">>,
      SubSeq(TxtGuid1, 1, 35),
      [TxtGuid1 EXCEPT ![9] = "0"],
      [TxtGuid1 EXCEPT ![36] = "g"],
      [TxtGuid2 EXCEPT ![1] = "-"] }

\* Integer texts, texts that strtol reads only in part, and names.
OtherTexts ==
    { <<"7">>, <<"0", "x", "1", "F">>, <<"0", "1", "0">>, <<"-", "5">>, <<" ", "1", "2">>,
      <<"+", "4">>, <<"0">>, <<"1", "2", " ">>, <<"0", "x">>, <<"0", "8">>, <<"-">>,
      << >>, <<"K">>, <<"G">>, <<"Z">>, NULL }

\* The texts a call can be given.
Texts == GuidTexts \cup NearGuidTexts \cup {TxtGuid1, TxtGuid2} \cup OtherTexts

\* The <constant> declarations the list is built from: names declared with
\* either type, and names that read as an integer or as a GUID.
ConstantDecls ==
    { [line |-> 1, id |-> <<"K">>, type |-> "integer", value |-> <<"3">>],
      [line |-> 1, id |-> <<"K">>, type |-> "guid", value |-> TxtGuid2],
      [line |-> 1, id |-> <<"G">>, type |-> "guid", value |-> TxtGuid1],
      [line |-> 1, id |-> <<"G">>, type |-> "integer", value |-> <<"4">>],
      [line |-> 1, id |-> <<"7">>, type |-> "integer", value |-> <<"9">>],
      [line |-> 1, id |-> TxtGuid1, type |-> "guid", value |-> TxtGuid2],
      [line |-> 1, id |-> TxtGuid1 \o <<"x">>, type |-> "guid", value |-> TxtGuid2] }

RECURSIVE StoreAll(_, _)
\* The list of constants after process_constant was called for each
\* declaration of ds in turn.
StoreAll(ds, constants) ==
    IF ds = << >> THEN constants
    ELSE StoreAll(Tail(ds), process_constant(Head(ds), constants).constants)

\* The lists of constants process_constants can leave behind.
Tables ==
    {StoreAll(ds, << >>) : ds \in UNION {[1..n -> ConstantDecls] : n \in 0..MaxConstants}}

\* The caller's integer before the call.
Value0s == {0, 77}

InitResolve ==
    /\ initialized = TRUE
    /\ file_name = 0
    /\ info = [present |-> FALSE, flags |-> {}, stats |-> ZeroStats, messages |-> << >>,
               meta |-> ZeroMeta]
    /\ ignore_eexist = FALSE
    /\ devices = << >>
    /\ xml_doc = 0
    /\ \E t \in Tables : ctx = [ZeroCtx EXCEPT !.constants = t]
    /\ i = 0
    /\ successful_devices = 0
    /\ ret = C_SUCCESS
    /\ pc = "resolve"
    /\ k = 0
    /\ calls = << >>
    /\ processed = << >>
    /\ \E t \in Texts, v \in Value0s :
          resolve = [IdleResolve EXCEPT !.text = t, !.value0 = v, !.value = v]
    /\ decl = IdleDecl
    /\ buffer = EmptyBuffer
    /\ ndebug = FALSE
    /\ first = NoSession
    /\ stdout = << >>

\* The caller's variables after lookup_or_convert_to_integer returned r: the
\* integer is written only on success.
AfterInteger(rs, r) ==
    [rs EXCEPT !.fn = "integer",
               !.ret = IF r.ok THEN C_SUCCESS ELSE C_PARSE_ERROR,
               !.value = IF r.ok THEN r.value ELSE rs.value]

\* The caller's variables after lookup_or_convert_to_guid returned r: the
\* GUID buffer is written only on success.
AfterGuid(rs, r) ==
    [rs EXCEPT !.fn = "guid",
               !.ret = IF r.ok THEN C_SUCCESS ELSE C_PARSE_ERROR,
               !.guid = IF r.ok THEN r.guid ELSE rs.guid]

\* A call of lookup_or_convert_to_integer.
ResolveInteger ==
    /\ pc = "resolve"
    /\ resolve' = AfterInteger(resolve,
                               lookup_or_convert_to_integer(resolve.text, ctx.constants))
    /\ pc' = "resolved"
    /\ UNCHANGED <<initialized, file_name, info, ignore_eexist, devices, xml_doc, ctx,
                   i, successful_devices, ret, k, calls, processed, decl, buffer, ndebug, first, stdout>>

\* A call of lookup_or_convert_to_guid.
ResolveGuid ==
    /\ pc = "resolve"
    /\ resolve' = AfterGuid(resolve,
                            lookup_or_convert_to_guid(resolve.text, ctx.constants))
    /\ pc' = "resolved"
    /\ UNCHANGED <<initialized, file_name, info, ignore_eexist, devices, xml_doc, ctx,
                   i, successful_devices, ret, k, calls, processed, decl, buffer, ndebug, first, stdout>>

NextResolve ==
    \/ ResolveInteger
    \/ ResolveGuid

SpecResolve == InitResolve /\ [][NextResolve]_vars

(***************************************************************************)
(* One call of process_control or process_mapping, for a declaration, a    *)
(* list of constants, a pass and a caller drawn from bounded sets.         *)
(***************************************************************************)
\* The longest <requests> list of a control.
MaxRequests == 2

\* The texts of a <request> node: recognized names, a name that is not
\* recognized, and no text.
RequestTokens == {"SET_CUR", "GET_DEF", "GET_FOO", NoText}

RequestLists == UNION {[1..n -> RequestTokens] : n \in 0..MaxRequests}

\* <control> nodes on line 5 with their <request> nodes on line 6: the
\* entity is a GUID or an undeclared name.
ControlDecls ==
    {[Control(5, "xu", e, <<"1">>, <<"0">>, <<"3">>, rq) EXCEPT !.requestLine = 6] :
        e \in {TxtGuid1, <<"Z">>}, rq \in RequestLists}

\* The texts of the <size> and <offset> nodes of a mapping: numbers at both
\* ends of [0, 0xFF] in each notation, numbers outside, the names of a
\* constant and of none, text that is no number, no text.
SizeTexts ==
    { <<"0">>, <<"8">>, <<"2", "5", "5">>, <<"2", "5", "6">>, <<"0", "x", "F", "F">>,
      <<"0", "x", "1", "0", "0">>, <<"-", "1">>, <<"K">>, <<"Z">>, <<"8", "x">>, NULL }

\* A text of n characters without whitespace.
NameOfLength(n) == [p \in 1..n |-> HexDigits[(p % 22) + 1]]

\* The texts of the <name> node of a mapping: shorter than the name field,
\* of its width less one, of its width and longer; with whitespace to
\* normalize; without text.
NameTexts ==
    {NameOfLength(n) : n \in {1, MappingNameWidth - 2, MappingNameWidth - 1,
                              MappingNameWidth, MappingNameWidth + 1,
                              MappingNameWidth + 7}}
    \cup {TxtLed, << >>, NULL,
          NameOfLength(MappingNameWidth - 2) \o <<" ", " ">> \o NameOfLength(3)}

\* A <mapping> node on line 10 with its <uvc> node on line 12, its
\* <control_ref> node on line 13 and its <v4l2> node on line 16.
MappingAt(name, idref, size, offset, uvc_type) ==
    [Mapping(10, name, idref, size, offset, uvc_type, <<"9">>, "V4L2_CTRL_TYPE_INTEGER")
        EXCEPT !.uvcLine = 12, !.refLine = 13, !.v4l2Line = 16]

MappingDecls ==
    {MappingAt(TxtFocus, "xu", sz, off, "UVC_CTRL_DATA_TYPE_UNSIGNED") :
        sz \in SizeTexts, off \in SizeTexts}
    \cup {MappingAt(n, "xu", <<"8">>, <<"0">>, "UVC_CTRL_DATA_TYPE_UNSIGNED") :
            n \in NameTexts}
    \cup {MappingAt(TxtFocus, id, <<"8">>, <<"0">>, "UVC_CTRL_DATA_TYPE_UNSIGNED") :
            id \in {"xu_none", NoText}}
    \cup {MappingAt(TxtFocus, "xu", <<"8">>, <<"0">>, "UVC_CTRL_DATA_TYPE_FOO"),
          [MappingAt(TxtFocus, "xu", <<"8">>, <<"0">>, "UVC_CTRL_DATA_TYPE_UNSIGNED")
              EXCEPT !.hasControlRef = FALSE],
          [MappingAt(TxtFocus, "xu", <<"8">>, <<"0">>, "UVC_CTRL_DATA_TYPE_UNSIGNED")
              EXCEPT !.hasUvc = FALSE],
          [MappingAt(TxtFocus, "xu", <<"8">>, <<"0">>, "UVC_CTRL_DATA_TYPE_UNSIGNED")
              EXCEPT !.hasV4l2 = FALSE],
          [MappingAt(TxtFocus, "xu", <<"8">>, <<"0">>, "UVC_CTRL_DATA_TYPE_UNSIGNED")
              EXCEPT !.v4l2_id = <<"Z">>],
          [MappingAt(TxtFocus, "xu", <<"8">>, <<"0">>, "UVC_CTRL_DATA_TYPE_UNSIGNED")
              EXCEPT !.v4l2_type = "V4L2_CTRL_TYPE_FOO"]}

\* The declarations a call can be made for.
\* <constant> nodes on line 5: integer and guid constants with a valid
\* value, with a value that is no integer or no GUID (a hyphen replaced by a
\* digit, a last character that is no hexadecimal digit) and without
\* <value>; a redefinition of K, a constant without <id> and one of an
\* unknown type.
ConstantNodes ==
    {[line |-> 5, id |-> <<"N">>, type |-> "integer", value |-> v] :
        v \in {<<"7">>, <<"x">>, NULL}}
    \cup {[line |-> 5, id |-> <<"G">>, type |-> "guid", value |-> v] :
             v \in {TxtGuid1, [TxtGuid1 EXCEPT ![9] = "0"], [TxtGuid1 EXCEPT ![36] = "g"],
                    NULL}}
    \cup {[line |-> 5, id |-> <<"K">>, type |-> "guid", value |-> TxtGuid1],
          [line |-> 5, id |-> NULL, type |-> "integer", value |-> <<"7">>],
          [line |-> 5, id |-> <<"N">>, type |-> "float", value |-> <<"7">>]}

Declarations ==
    {[IdleDecl EXCEPT !.kind = "control", !.node = c] : c \in ControlDecls}
    \cup {[IdleDecl EXCEPT !.kind = "mapping", !.node = m] : m \in MappingDecls}
    \cup {[IdleDecl EXCEPT !.kind = "constant", !.node = c] : c \in ConstantNodes}

\* The lists of constants at the call: none, or the integer constant K.
DeclTables ==
    {<< >>,
     StoreAll(<<[line |-> 1, id |-> <<"K">>, type |-> "integer", value |-> <<"3">>]>>,
              << >>)}

\* The list of controls at the call: the control "xu", stored by an earlier
\* call of process_control.
StoredControls ==
    <<[id |-> "xu", entity |-> guid_to_byte_array(TxtGuid2), selector |-> 4,
       index |-> 0, size |-> 3,
       flags |-> {"UVC_CTRL_FLAG_GET_CUR", "UVC_CTRL_FLAG_AUTO_UPDATE"}]>>

InitDecl ==
    /\ initialized = TRUE
    /\ file_name = 0
    /\ info \in InfoChoices
    /\ ignore_eexist \in BOOLEAN
    /\ devices = <<[driver |-> "uvcvideo"]>>
    /\ xml_doc = 0
    /\ \E t \in DeclTables, p \in 1..MaxDevices :
          ctx = [ZeroCtx EXCEPT !.constants = t, !.controls = StoredControls,
                                !.handle = 1, !.v4l2_handle = 1, !.pass = p]
    /\ i = 1
    /\ successful_devices = 0
    /\ ret = C_SUCCESS
    /\ pc = "declare"
    /\ k = 0
    /\ calls = << >>
    /\ processed = << >>
    /\ resolve = IdleResolve
    /\ decl \in Declarations
    /\ buffer = EmptyBuffer
    /\ ndebug \in BOOLEAN
    /\ first = NoSession
    /\ stdout = << >>

\* process_control for a control resolved to r: the errors of the
\* resolution, then the ioctl if the control reaches it, its error, and the
\* list of controls.
ControlCall(r) ==
    IF ~r.send
    THEN /\ info' = add_messages(info, r.msgs)
         /\ decl' = [decl EXCEPT !.ret = r.ret]
         /\ UNCHANGED <<ctx, calls>>
    ELSE \E errno \in TransportOutcomes :
         /\ calls' = Append(calls, Call("UVCIOC_CTRL_ADD", ctx.v4l2_handle, errno, r.xu))
         /\ ctx' = [ctx EXCEPT !.controls =
                       add_control(@, r.xu, control_result(errno, ctx.pass, ignore_eexist))]
         /\ info' = add_messages(info,
                        r.msgs \o control_messages(errno, ctx.pass, ignore_eexist,
                                                   ctx.handle))
         /\ decl' = [decl EXCEPT !.ret = control_result(errno, ctx.pass, ignore_eexist)]

\* A call of process_control.
DeclareControl ==
    /\ pc = "declare"
    /\ decl.kind = "control"
    /\ ControlCall(resolve_control(decl.node, ctx.constants))
    /\ pc' = "declared"
    /\ UNCHANGED <<initialized, file_name, ignore_eexist, devices, xml_doc, i,
                   successful_devices, ret, k, processed, resolve, buffer, ndebug, first, stdout>>

\* process_mapping for a mapping resolved to r: the error of the
\* resolution, or the ioctl and its error; and the bytes it read from the
\* name.
MappingCall(r) ==
    IF ~r.send
    THEN /\ info' = add_messages(info, r.msgs)
         /\ decl' = [decl EXCEPT !.ret = r.ret, !.read = r.read]
         /\ UNCHANGED calls
    ELSE \E errno \in TransportOutcomes :
         /\ calls' = Append(calls, Call("UVCIOC_CTRL_MAP", ctx.v4l2_handle, errno,
                                        r.mapping))
         /\ info' = add_messages(info,
                        mapping_messages(errno, ctx.pass, ignore_eexist, ctx.handle))
         /\ decl' = [decl EXCEPT !.ret = mapping_result(errno, ctx.pass, ignore_eexist),
                                !.read = r.read]

\* A call of process_mapping.
DeclareMapping ==
    /\ pc = "declare"
    /\ decl.kind = "mapping"
    /\ MappingCall(resolve_mapping(decl.node, ctx.controls, ctx.constants))
    /\ pc' = "declared"
    /\ UNCHANGED <<initialized, file_name, ignore_eexist, devices, xml_doc, ctx, i,
                   successful_devices, ret, k, processed, resolve, buffer, ndebug, first, stdout>>

\* A call of process_constant.
DeclareConstant ==
    /\ pc = "declare"
    /\ decl.kind = "constant"
    /\ \E o \in constant_call(decl.node, ctx.constants, ndebug) :
          IF o.signal = "none"
          THEN /\ ctx' = [ctx EXCEPT !.constants = o.r.constants]
               /\ info' = add_messages(info, o.r.msgs)
               /\ decl' = [decl EXCEPT !.ret = o.r.ret]
               /\ pc' = "declared"
          ELSE /\ pc' = o.signal
               /\ UNCHANGED <<ctx, info, decl>>
    /\ UNCHANGED <<initialized, file_name, ignore_eexist, devices, xml_doc, i,
                   successful_devices, ret, k, calls, processed, resolve, buffer, ndebug, first, stdout>>

NextDeclare ==
    \/ DeclareControl
    \/ DeclareMapping
    \/ DeclareConstant

SpecDecl == InitDecl /\ [][NextDeclare]_vars

(***************************************************************************)
(* The message buffer: calls of add_message_v on the block of memory that  *)
(* info->messages points to.  The block is a sequence of cells; the        *)
(* address of a cell is its offset from the start of the block.  A         *)
(* CDynctrlMessage occupies MessageCells cells, the first of which holds   *)
(* its fields (text is the address of its string) and the others padding;  *)
(* a character of a string occupies one cell.                              *)
(***************************************************************************)
\* sizeof(CDynctrlMessage), in cells.
MessageCells == 2

\* The number of calls of add_message_v looked at.
MaxMessages == 3

\* The cell of a character.
CharCell(c) == [ch |-> c]

\* A cell of padding inside a CDynctrlMessage.
PadCell == [pad |-> TRUE]

\* memset(p, 0, n): n zeroed cells.
Zeros(n) == [p \in 1..n |-> CharCell(NUL)]

RECURSIVE strlen(_, _)
\* strlen of the string at address a of the block.
strlen(mem, a) == IF mem[a + 1] = CharCell(NUL) THEN 0 ELSE 1 + strlen(mem, a + 1)

\* The characters of the string at address a of the block.
StringAt(mem, a) == [p \in 1..strlen(mem, a) |-> mem[a + p].ch]

\* realloc by the size of one more message and memset of the new space.
Enlarged(mem, text) == mem \o Zeros(MessageCells + Len(text) + 1)

RECURSIVE Repoint(_, _, _, _)
\* The loop of resize_message_buffer from message n on, dynamics_length
\* being dynlen: the text pointer of every message is set to where its
\* string will be after the move.  [mem, dynlen] at the end of the loop.
Repoint(mem, count, n, dynlen) ==
    IF n >= count THEN [mem |-> mem, dynlen |-> dynlen]
    ELSE Repoint([mem EXCEPT ![n * MessageCells + 1].text =
                     count * MessageCells + dynlen + MessageCells],
                 count, n + 1,
                 dynlen + strlen(mem, count * MessageCells + dynlen) + 1)

\* memmove(dest, src, n) within the block.
memmove(mem, dest, src, n) ==
    [p \in 1..Len(mem) |->
        IF p - 1 >= dest /\ p - 1 < dest + n THEN mem[p - dest + src] ELSE mem[p]]

\* A move that is left out: the strings stay where they were.
MoveDynamics_None(r, count) == r

\* The dynamics area is moved down by the size of one message, if there is
\* a message already.
MoveDynamics(r, count) ==
    [r EXCEPT !.mem = IF count > 0
                      THEN memmove(r.mem, (count + 1) * MessageCells,
                                   count * MessageCells, r.dynlen)
                      ELSE r.mem]

\* strcpy(a, text) within the block.
strcpy(mem, a, text) ==
    [p \in 1..Len(mem) |->
        IF p - 1 >= a /\ p - 1 < a + Len(text) THEN CharCell(text[p - a])
        ELSE IF p - 1 = a + Len(text) THEN CharCell(NUL)
        ELSE mem[p]]

\* memcpy of a CDynctrlMessage to position j of the array.
StoreStruct(mem, j, line, col, severity, text) ==
    [p \in 1..Len(mem) |->
        IF p = j * MessageCells + 1
        THEN [line |-> line, col |-> col, severity |-> severity, text |-> text]
        ELSE IF p > j * MessageCells + 1 /\ p <= (j + 1) * MessageCells THEN PadCell
        ELSE mem[p]]

\* The end of resize_message_buffer: the string of the new message is
\* copied behind the dynamics area and the message behind the array.
StoreMessage(r, count, msg) ==
    StoreStruct(strcpy(r.mem, (count + 1) * MessageCells + r.dynlen, msg.text),
                count, msg.line, msg.col, msg.severity,
                (count + 1) * MessageCells + r.dynlen)

\* resize_message_buffer: the block after the message was added to the
\* count messages it holds.
resize_message_buffer(mem, count, msg) ==
    StoreMessage(MoveDynamics(Repoint(Enlarged(mem, msg.text), count, 0, 0), count),
                 count, msg)

\* add_message_v stores the message: the caller passed an info structure
\* with CD_REPORT_ERRORS, and vasprintf and realloc got their memory.
Stores(inf, memory) == inf.present /\ CD_REPORT_ERRORS \in inf.flags /\ memory

\* What add_message_v returns.
add_message_result(inf, memory) ==
    IF ~inf.present THEN C_INVALID_ARG
    ELSE IF CD_REPORT_ERRORS \notin inf.flags THEN C_SUCCESS
    ELSE IF ~memory THEN C_NO_MEMORY
    ELSE C_SUCCESS

\* The messages passed to add_message_v, with the text vasprintf makes of
\* the format and its arguments: equal texts, an empty text, positions and
\* severities that differ.
LogMessages ==
    { [line |-> 0, col |-> 0, severity |-> CD_SEVERITY_ERROR, text |-> <<"a", "b">>],
      [line |-> 7, col |-> 0, severity |-> CD_SEVERITY_ERROR, text |-> << >>],
      [line |-> 2, col |-> 5, severity |-> CD_SEVERITY_ERROR, text |-> <<"c">>],
      [line |-> 0, col |-> 0, severity |-> CD_SEVERITY_INFO, text |-> <<"a", "b">>] }

InitLog ==
    /\ initialized = TRUE
    /\ file_name = 0
    /\ info \in InfoChoices
    /\ ignore_eexist = FALSE
    /\ devices = << >>
    /\ xml_doc = 0
    /\ ctx = ZeroCtx
    /\ i = 0
    /\ successful_devices = 0
    /\ ret = C_SUCCESS
    /\ pc = "log"
    /\ k = 0
    /\ calls = << >>
    /\ processed = << >>
    /\ resolve = IdleResolve
    /\ decl = IdleDecl
    /\ buffer = EmptyBuffer
    /\ ndebug = FALSE
    /\ first = NoSession
    /\ stdout = << >>

\* add_message_v for a message, with or without the memory it asks for.
AddMessage(msg, memory) ==
    /\ calls' = Append(calls, Call("add_message_v", 0,
                                   add_message_result(info, memory), msg))
    /\ info' = IF memory THEN add_message_v(info, msg) ELSE info
    /\ buffer' = IF Stores(info, memory)
                 THEN resize_message_buffer(buffer, Len(info.messages), msg)
                 ELSE buffer

\* A call of add_message_v.
AppendMessage ==
    /\ pc = "log"
    /\ Len(calls) < MaxMessages
    /\ \E msg \in LogMessages, memory \in BOOLEAN : AddMessage(msg, memory)
    /\ UNCHANGED <<initialized, file_name, ignore_eexist, devices, xml_doc, ctx, i,
                   successful_devices, ret, pc, k, processed, resolve, decl, ndebug, first, stdout>>

NextLog == AppendMessage

SpecLog == InitLog /\ [][NextLog]_vars

(***************************************************************************)
(* Properties.                                                             *)
(***************************************************************************)
\* The positions of the calls of operation op.
CallsOf(op) == {j \in 1..Len(calls) : calls[j].op = op}

\* The device loop ran to its end: the document was parsed and every device
\* of the array was visited.
LoopCompleted ==
    /\ pc \in {"cleanup", "done"}
    /\ Len(devices) > 0
    /\ i > Len(devices)

\* The statistics are collected and the messages logged.
Reporting == info.present /\ CD_REPORT_ERRORS \in info.flags

\* The number of declarations of a kind processed so far with a result in rs.
NProcessed(kind, rs) ==
    Cardinality({j \in 1..Len(processed) :
                    processed[j].kind = kind /\ processed[j].ret \in rs})

\* The results a declaration can return.
Results ==
    {C_SUCCESS, C_NOT_IMPLEMENTED, C_INVALID_ARG, C_INVALID_DEVICE, C_PARSE_ERROR,
     C_V4L2_ERROR, C_CANNOT_WRITE, C_NO_MEMORY, C_INIT_ERROR}

\* C1: if at least one device was applied to successfully, the function
\* returns C_SUCCESS, whatever happened to the devices processed after it.
C1_SuccessIfAnyDeviceSucceeded ==
    (Returned /\ successful_devices > 0) => ret = C_SUCCESS

\* C2: if the device loop ended without a device applied to successfully,
\* the function returns C_INVALID_DEVICE and every successful counter of the
\* statistics is still 0.
C2_NoSupportedDevice ==
    (Returned /\ LoopCompleted /\ successful_devices = 0) =>
        /\ ret = C_INVALID_DEVICE
        /\ info.stats.constants.successful = 0
        /\ info.stats.controls.successful = 0
        /\ info.stats.mappings.successful = 0

\* C2 witness: a session over two UVC devices, one that cannot be opened and
\* one whose probe is denied, has returned.
C2_Witness ==
    /\ Returned /\ LoopCompleted /\ successful_devices = 0
    /\ Len(devices) = 2
    /\ \E j \in CallsOf("c_open_device") : calls[j].res = "error"
    /\ \E j \in CallsOf("UVCIOC_CTRL_ADD probe") : calls[j].res = "EPERM"

\* The permission diagnostics of the log.
PermissionMessages ==
    {j \in 1..Len(info.messages) :
        info.messages[j].text.fmt = "device '%s' skipped because you do not have the right permissions. Newer driver versions require root permissions."}

\* Scenario A: the document with one GUID constant, one control and one
\* mapping was applied to two UVC devices that could be opened; the probe of
\* one was accepted, the probe of the other denied; the driver accepted the
\* control and the mapping.
ScenarioA ==
    /\ Returned /\ LoopCompleted
    /\ file_name = 1
    /\ Reporting
    /\ Len(devices) = 2
    /\ \A d \in 1..2 : devices[d].driver = "uvcvideo"
    /\ \A j \in CallsOf("c_open_device") \cup CallsOf("open_v4l2_device") :
          calls[j].res = "0"
    /\ \E j \in CallsOf("UVCIOC_CTRL_ADD probe") : calls[j].res = "EEXIST"
    /\ \E j \in CallsOf("UVCIOC_CTRL_ADD probe") : calls[j].res = "EPERM"
    /\ \A j \in CallsOf("UVCIOC_CTRL_ADD") \cup CallsOf("UVCIOC_CTRL_MAP") :
          calls[j].res = "0"

\* C3: scenario A ends with stats.constants = {1, 0}, stats.controls =
\* {2, 0}, one permission diagnostic for the rejected device, and C_SUCCESS,
\* whichever of the two devices comes first.
C3_ScenarioA ==
    ScenarioA =>
        /\ info.stats.constants = [successful |-> 1, failed |-> 0]
        /\ info.stats.controls = [successful |-> 2, failed |-> 0]
        /\ Cardinality(PermissionMessages) = 1
        /\ ret = C_SUCCESS

\* C4: with the statistics collected, the successful counter of a category
\* is the number of its declarations whose processing returned success and
\* the failed counter the number whose processing returned an error.
C4_CountersMatchResults ==
    info.present =>
        /\ info.stats.constants.successful = NProcessed("constant", {C_SUCCESS})
        /\ info.stats.constants.failed = NProcessed("constant", Results \ {C_SUCCESS})
        /\ info.stats.controls.successful = NProcessed("control", {C_SUCCESS})
        /\ info.stats.controls.failed = NProcessed("control", Results \ {C_SUCCESS})
        /\ info.stats.mappings.successful = NProcessed("mapping", {C_SUCCESS})
        /\ info.stats.mappings.failed = NProcessed("mapping", Results \ {C_SUCCESS})

\* The passes started so far: one for every probe that found support.
PassesRun ==
    Cardinality({j \in CallsOf("UVCIOC_CTRL_ADD probe") : calls[j].res = "EEXIST"})

\* The declarations a counter pair has counted.
Total(st) == st.successful + st.failed

\* The file was parsed and no pass is under way.
BetweenPasses ==
    /\ \E j \in CallsOf("xmlCtxtReadFile") : calls[j].res = "0"
    /\ pc \notin {"start", "enum", "parse", "doc", "constants", "controls", "mappings"}

\* The positions in processed of the constants.
ConstantEntries == {j \in 1..Len(processed) : processed[j].kind = "constant"}

\* C5 as stated: at the end of a session whose device loop ran to its end,
\* each constant declaration has been counted exactly once, and the controls
\* and mappings counters have grown by the number of declarations for every
\* pass.
C5_ConstantsExactlyOnce ==
    (info.present /\ Returned /\ LoopCompleted) =>
        /\ Total(info.stats.constants) = Len(Files[file_name].constants)
        /\ Total(info.stats.controls) = PassesRun * Len(Files[file_name].controls)
        /\ Total(info.stats.mappings) = PassesRun * Len(Files[file_name].mappings)

\* C5: constants are processed only in the pass whose counter is 1 and
\* counted only there; each is counted at most once per session, exactly
\* once when a pass was run (a pass is run only for a device whose probe
\* found support) and not at all otherwise; the controls and mappings
\* counters grow by the number of declarations on every pass.
C5_ConstantsInPassOne ==
    /\ \A j \in ConstantEntries : processed[j].pass = 1
    /\ \A j, l \in ConstantEntries : processed[j].k = processed[l].k => j = l
    /\ pc = "pass_done" => ctx.pass = PassesRun
    /\ info.present =>
        /\ Total(info.stats.constants) = Cardinality(ConstantEntries)
        /\ BetweenPasses =>
            /\ Total(info.stats.constants) =
                  IF PassesRun = 0 THEN 0 ELSE Len(Files[file_name].constants)
            /\ Total(info.stats.controls) = PassesRun * Len(Files[file_name].controls)
            /\ Total(info.stats.mappings) = PassesRun * Len(Files[file_name].mappings)

\* C5 witness: a session of two passes over the document with three
\* constants, two controls and two mappings has returned.
C5_Witness ==
    /\ Returned /\ info.present /\ file_name = 2
    /\ PassesRun = 2
    /\ Total(info.stats.constants) = 3
    /\ Total(info.stats.controls) = 4
    /\ Total(info.stats.mappings) = 4

\* Declaration pos of a kind was processed in a pass.
Attempted(kind, pos, pass) ==
    \E j \in 1..Len(processed) :
        /\ processed[j].kind = kind
        /\ processed[j].k = pos
        /\ processed[j].pass = pass

\* Operation op was called for device d.
CalledFor(op, d) == \E j \in CallsOf(op) : calls[j].dev = d

\* Operation op was called for device d and succeeded.
SucceededFor(op, d) == \E j \in CallsOf(op) : calls[j].dev = d /\ calls[j].res = "0"

\* The probe of device d did not find support.
FailedProbe(d) ==
    \E j \in CallsOf("UVCIOC_CTRL_ADD probe") :
        calls[j].dev = d /\ calls[j].res # "EEXIST"

\* C6: at the end of a pass every control and every mapping of the document
\* has been processed in that pass, whatever their siblings returned; at the
\* end of the device loop every UVC device has been opened, and has been
\* taken as far as its own calls succeeded, whatever happened to the devices
\* before it.
C6_FailureIsolation ==
    /\ pc = "pass_done" =>
        /\ \A pos \in 1..Len(Doc.controls) : Attempted("control", pos, ctx.pass)
        /\ \A pos \in 1..Len(Doc.mappings) : Attempted("mapping", pos, ctx.pass)
    /\ LoopCompleted =>
        \A d \in 1..Len(devices) :
            devices[d].driver = "uvcvideo" =>
                /\ CalledFor("c_open_device", d)
                /\ SucceededFor("c_open_device", d) => CalledFor("open_v4l2_device", d)
                /\ SucceededFor("open_v4l2_device", d) =>
                      CalledFor("UVCIOC_CTRL_ADD probe", d)

\* C6 witness: after the probe of the first device failed, the pass of the
\* second device is at its end; its first mapping returned an error, its
\* second control was rejected by the driver, and its second mapping was
\* sent.
C6_Witness ==
    /\ pc = "pass_done" /\ file_name = 2 /\ i = 2
    /\ FailedProbe(1)
    /\ \E j \in 1..Len(processed) :
          /\ processed[j].kind = "mapping" /\ processed[j].k = 1
          /\ processed[j].ret = C_PARSE_ERROR
    /\ \E j \in CallsOf("UVCIOC_CTRL_ADD") : calls[j].res = "EINVAL"
    /\ CallsOf("UVCIOC_CTRL_MAP") # {}

\* The calls that send a declaration of the document to a device.
Sends == CallsOf("UVCIOC_CTRL_ADD") \cup CallsOf("UVCIOC_CTRL_MAP")

\* The last call made is the probe.
JustProbed ==
    /\ pc \in {"doc", "amc_done"}
    /\ calls # << >>
    /\ calls[Len(calls)].op = "UVCIOC_CTRL_ADD probe"

\* C7: after the probe, EEXIST gives C_SUCCESS, EPERM gives C_CANNOT_WRITE
\* and any other error gives C_NOT_IMPLEMENTED; the document is processed
\* only after EEXIST, and every control or mapping sent to a device comes
\* after a probe of that device that ended with EEXIST.
C7_ProbeClassification ==
    /\ JustProbed =>
        /\ calls[Len(calls)].res = "EEXIST" => ret = C_SUCCESS
        /\ calls[Len(calls)].res = "EPERM" => ret = C_CANNOT_WRITE
        /\ calls[Len(calls)].res \notin {"EEXIST", "EPERM", "0"} =>
              ret = C_NOT_IMPLEMENTED
        /\ pc = "doc" => calls[Len(calls)].res = "EEXIST"
    /\ \A j \in Sends :
          \E p \in CallsOf("UVCIOC_CTRL_ADD probe") :
              /\ p < j
              /\ calls[p].dev = calls[j].dev
              /\ calls[p].res = "EEXIST"

\* C7 witness: the probe of the second device has just ended with EINVAL,
\* after the first device was found to support dynamic controls and was
\* sent a mapping.
C7_Witness ==
    /\ JustProbed
    /\ calls[Len(calls)].res = "EINVAL" /\ calls[Len(calls)].dev = 2
    /\ ret = C_NOT_IMPLEMENTED
    /\ \E j \in CallsOf("UVCIOC_CTRL_MAP") : calls[j].dev = 1

\* A step leaves the constants, the controls and the statistics as they are.
TablesUnchanged ==
    /\ ctx'.constants = ctx.constants
    /\ ctx'.controls = ctx.controls
    /\ info'.stats = info.stats

\* A step appends one error that names device d to the log and does nothing
\* else to it.
AppendsOneErrorFor(d) ==
    /\ Len(info'.messages) = Len(info.messages) + 1
    /\ SubSeq(info'.messages, 1, Len(info.messages)) = info.messages
    /\ info'.messages[Len(info'.messages)].severity = CD_SEVERITY_ERROR
    /\ info'.messages[Len(info'.messages)].text.dev = d

\* C8: the steps made for a device whose probe does not find support (the
\* probe itself, the closing of the V4L2 handle, the handling of the result)
\* leave the constants, the controls and the statistics unchanged; the
\* handling of the result does not count the device, goes on with the next
\* device and, when the log is kept, appends exactly one error naming the
\* device, the only message logged for it.
C8_FailedProbeSkipped ==
    [][ /\ (pc = "probe" /\ pc' = "amc_done") =>
              TablesUnchanged /\ info' = info
        /\ (pc = "amc_done" /\ FailedProbe(i)) =>
              TablesUnchanged /\ info' = info
        /\ (pc = "device_result" /\ FailedProbe(i)) =>
              /\ TablesUnchanged
              /\ successful_devices' = successful_devices
              /\ pc' = "loop"
              /\ i' = i + 1
              /\ IF Reporting THEN AppendsOneErrorFor(i) ELSE info' = info
      ]_vars

\* C8 witness: the loop is past the second of two devices; the first was
\* applied to, the probe of the second failed, and the last message of the
\* log names the second device.
C8_Witness ==
    /\ pc = "loop" /\ i = 3
    /\ FailedProbe(2)
    /\ successful_devices = 1
    /\ ctx.controls # << >>
    /\ Reporting
    /\ info.messages # << >>
    /\ info.messages[Len(info.messages)].text.dev = 2

\* The XML parser could not read the file.
ParseFailed == \E j \in CallsOf("xmlCtxtReadFile") : calls[j].res = "error"

\* C9: the file is parsed at most once in a session; when the parser could
\* not read it, the only calls made are the enumeration of the devices and
\* the parse, no declaration is processed, no device is counted and the
\* function returns C_PARSE_ERROR.
C9_ParseFailure ==
    /\ Cardinality(CallsOf("xmlCtxtReadFile")) <= 1
    /\ ParseFailed =>
        /\ \A j \in 1..Len(calls) : calls[j].op \in {"c_enum_devices", "xmlCtxtReadFile"}
        /\ processed = << >>
        /\ successful_devices = 0
        /\ Returned => ret = C_PARSE_ERROR

\* C9 witness: a session over two UVC devices has returned after the parser
\* could not read the file.
C9_Witness ==
    /\ Returned /\ ParseFailed
    /\ ret = C_PARSE_ERROR
    /\ Len(devices) = 2
    /\ \A d \in 1..2 : devices[d].driver = "uvcvideo"

\* A mapping whose own fields are well-formed: it reaches its ioctl when the
\* list of controls holds a control with the id it refers to.
WellFormedMapping(m) ==
    resolve_mapping(m, <<[ZeroControl EXCEPT !.id = m.idref]>>, ctx.constants).send

\* The control with an id reached UVCIOC_CTRL_ADD, with whatever outcome.
ControlSent(id) == \E j \in CallsOf("UVCIOC_CTRL_ADD") : calls[j].arg.id = id

\* The results process_mapping returns after its ioctl.
AfterIoctl == {C_SUCCESS, C_V4L2_ERROR}

\* The declaration processed last.
LastProcessed == processed[Len(processed)]

\* process_mapping has just returned for the mapping LastProcessed.
MappingJustProcessed ==
    /\ pc \in {"mappings", "pass_done"}
    /\ processed # << >>
    /\ LastProcessed.kind = "mapping"

\* C10: as long as the context lives, every control that reached
\* UVCIOC_CTRL_ADD is found in the list of controls, whether the driver
\* accepted or rejected it; and every mapping whose own fields are
\* well-formed and which refers to such a control has reached
\* UVCIOC_CTRL_MAP when process_mapping returns.
C10_RejectedControlStaysRegistered ==
    ~Returned =>
        /\ \A j \in CallsOf("UVCIOC_CTRL_ADD") :
              lookup_control(ctx.controls, calls[j].arg.id) # 0
        /\ (/\ MappingJustProcessed
            /\ ControlSent(Doc.mappings[LastProcessed.k].idref)
            /\ WellFormedMapping(Doc.mappings[LastProcessed.k])) =>
               LastProcessed.ret \in AfterIoctl
        /\ Cardinality(CallsOf("UVCIOC_CTRL_MAP")) = NProcessed("mapping", AfterIoctl)

\* C10 witness: the driver rejected every control sent so far, and a mapping
\* has been sent all the same.
C10_Witness ==
    /\ ~Returned
    /\ CallsOf("UVCIOC_CTRL_ADD") # {}
    /\ \A j \in CallsOf("UVCIOC_CTRL_ADD") : calls[j].res = "EINVAL"
    /\ CallsOf("UVCIOC_CTRL_MAP") # {}

\* The entries of the list of controls with an id.
EntriesFor(id) ==
    Cardinality({p \in 1..Len(ctx.controls) : ctx.controls[p].id = id})

\* C11: while the context lives, the list of controls holds at most one
\* entry for each control declaration of the document, however many passes
\* were run.
C11_OneEntryPerDeclaration ==
    xml_doc # 0 =>
        \A c \in 1..Len(Doc.controls) : EntriesFor(Doc.controls[c].id) <= 1

\* The processed entries of control declaration c.
ControlEntries(c) ==
    {j \in 1..Len(processed) : processed[j].kind = "control" /\ processed[j].k = c}

\* The size of control declaration c resolves to an integer outside
\* [0, 0xFFFF].
SizeOutOfRange(c) ==
    /\ lookup_or_convert_to_integer(Doc.controls[c].size, ctx.constants).ok
    /\ ~is_valid_size(lookup_or_convert_to_integer(Doc.controls[c].size,
                                                   ctx.constants).value, 65535)

\* C13: a control declaration whose size is outside [0, 0xFFFF] returns an
\* error when it is processed, is not sent to the driver and is not put in
\* the list of controls; the declaration with size 0xFFFF is sent, put in
\* the list and returns C_SUCCESS when the driver accepts it.
C13_SizeBoundary ==
    (xml_doc # 0 /\ pc \in {"controls", "mappings", "pass_done"}) =>
        \A c \in 1..Len(Doc.controls) :
            /\ SizeOutOfRange(c) =>
                /\ \A j \in ControlEntries(c) : processed[j].ret # C_SUCCESS
                /\ ~ControlSent(Doc.controls[c].id)
                /\ EntriesFor(Doc.controls[c].id) = 0
            /\ (Doc.controls[c].size = <<"0", "x", "F", "F", "F", "F">>
                /\ ControlEntries(c) # {}) =>
                /\ ControlSent(Doc.controls[c].id)
                /\ EntriesFor(Doc.controls[c].id) > 0

\* Control declaration c has no id, an entity that is neither a GUID nor a
\* GUID constant, or a selector, index or size that is neither an integer
\* nor an integer constant.
UnresolvableControl(c) ==
    \/ Doc.controls[c].id = NoText
    \/ ~lookup_or_convert_to_guid(Doc.controls[c].entity, ctx.constants).ok
    \/ ~lookup_or_convert_to_integer(Doc.controls[c].selector, ctx.constants).ok
    \/ ~lookup_or_convert_to_integer(Doc.controls[c].index, ctx.constants).ok
    \/ ~lookup_or_convert_to_integer(Doc.controls[c].size, ctx.constants).ok

\* The processed control declarations that are unresolvable.
UnresolvableEntries ==
    {j \in 1..Len(processed) :
        processed[j].kind = "control" /\ UnresolvableControl(processed[j].k)}

\* In a pass, from the controls on: the constants are all stored.
ConstantsDone == xml_doc # 0 /\ pc \in {"controls", "mappings", "pass_done"}

\* An unresolvable control returns C_PARSE_ERROR, is not sent to the driver
\* and is not put in the list of controls.
UnresolvableControlDropped ==
    ConstantsDone =>
        \A c \in 1..Len(Doc.controls) :
            UnresolvableControl(c) =>
                /\ \A j \in ControlEntries(c) : processed[j].ret = C_PARSE_ERROR
                /\ ~ControlSent(Doc.controls[c].id)
                /\ EntriesFor(Doc.controls[c].id) = 0

\* C12: an unresolvable control is not put in the list of controls, is not
\* sent to the driver, and is counted as failed: the failed counter of the
\* controls has counted every such declaration processed.
C12_UnresolvableControlFails ==
    /\ UnresolvableControlDropped
    /\ (ConstantsDone /\ info.present) =>
          info.stats.controls.failed >= Cardinality(UnresolvableEntries)

\* The selector or the index of control declaration c resolves to an integer
\* outside [0, 0xFF].
TooWideFor8Bits(c) ==
    \/ /\ lookup_or_convert_to_integer(Doc.controls[c].selector, ctx.constants).ok
       /\ lookup_or_convert_to_integer(Doc.controls[c].selector,
                                       ctx.constants).value \notin 0..255
    \/ /\ lookup_or_convert_to_integer(Doc.controls[c].index, ctx.constants).ok
       /\ lookup_or_convert_to_integer(Doc.controls[c].index,
                                       ctx.constants).value \notin 0..255

\* C14: a control whose selector or index resolves outside [0, 0xFF] returns
\* an error, is not sent to the driver and is not put in the list of
\* controls.
C14_SelectorIndexRange ==
    ConstantsDone =>
        \A c \in 1..Len(Doc.controls) :
            TooWideFor8Bits(c) =>
                /\ \A j \in ControlEntries(c) : processed[j].ret # C_SUCCESS
                /\ ~ControlSent(Doc.controls[c].id)
                /\ EntriesFor(Doc.controls[c].id) = 0

\* The positions in processed of the mappings.
MappingEntries == {j \in 1..Len(processed) : processed[j].kind = "mapping"}

\* A step of the resolution of mapping m fails: the control it refers to is
\* not in the list, or its name, V4L2 ID, V4L2 type, size, offset or UVC
\* type cannot be read.
FailingMapping(m) ==
    \/ lookup_control(ctx.controls, m.idref) = 0
    \/ unicode_to_normalized_ascii(m.name) = NULL
    \/ ~lookup_or_convert_to_integer(m.v4l2_id, ctx.constants).ok
    \/ get_v4l2_ctrl_type_by_name(m.v4l2_type) = "0"
    \/ ~is_valid_size_string(unicode_to_ascii(m.size), 255).ok
    \/ ~is_valid_size_string(unicode_to_ascii(m.offset), 255).ok
    \/ get_uvc_ctrl_type_by_name(m.uvc_type) = "-1"

\* The UVCIOC_CTRL_MAP requests made for a device.
MapRequestsFor(d) == {j \in CallsOf("UVCIOC_CTRL_MAP") : calls[j].dev = d}

\* C15: when process_mapping returns for a mapping with a failing resolution
\* step, it returns C_PARSE_ERROR, and the requests made so far for the
\* device are as many as the mappings of the pass that returned what
\* process_mapping returns after its ioctl: none was made for the failing
\* mapping.
C15_FailedMappingNotSent ==
    MappingJustProcessed =>
        /\ FailingMapping(Doc.mappings[LastProcessed.k]) =>
              LastProcessed.ret = C_PARSE_ERROR
        /\ Cardinality(MapRequestsFor(i)) =
              Cardinality({j \in MappingEntries :
                              /\ processed[j].pass = ctx.pass
                              /\ processed[j].ret \in AfterIoctl})

\* C15 witness: a pass over the document with seven failing mappings and one
\* well-formed mapping is at its end; one request was sent.
C15_Witness ==
    /\ pc = "pass_done" /\ file_name = 4 /\ ctx.pass = 1
    /\ Cardinality({j \in MappingEntries : processed[j].ret = C_PARSE_ERROR}) = 7
    /\ Cardinality(CallsOf("UVCIOC_CTRL_MAP")) = 1

\* The name of the constant declared by processed entry j.
NameOf(j) == unicode_to_ascii(Doc.constants[processed[j].k].id)

\* Entry j redeclares a name that an earlier declaration stored.
Redeclares(j) ==
    \E l \in ConstantEntries :
        l < j /\ NameOf(l) = NameOf(j) /\ processed[l].ret = C_SUCCESS

\* The log holds the redefinition error for the declaration at a line.
RedefinitionLogged(line) ==
    \E q \in 1..Len(info.messages) :
        /\ info.messages[q].line = line
        /\ info.messages[q].severity = CD_SEVERITY_ERROR
        /\ info.messages[q].text.fmt =
              "Constant '%s' has already been defined. Ignoring redefinition."

\* The name of the constant stored by entry j resolves to the value that
\* declaration gave it.
ResolvesToDeclared(j) ==
    IF constant_type(Doc.constants[processed[j].k].type) = CT_INTEGER
    THEN lookup_or_convert_to_integer(NameOf(j), ctx.constants) =
             [ok |-> TRUE,
              value |-> is_valid_integer_string(Doc.constants[processed[j].k].value).value]
    ELSE lookup_or_convert_to_guid(NameOf(j), ctx.constants) =
             [ok |-> TRUE,
              guid |-> guid_to_byte_array(Doc.constants[processed[j].k].value)]

\* process_constant has just returned for the constant LastProcessed; the
\* list of constants changes in no other step.
ConstantJustProcessed ==
    /\ processed # << >>
    /\ LastProcessed.kind = "constant"

\* C16: while the document lives, the names of the stored constants are
\* pairwise distinct; a declaration of a name already stored, with the same
\* or another type, returns C_PARSE_ERROR and, when the log is kept, logs
\* the redefinition error, and stores nothing; and the name of every stored
\* constant resolves to the value of the declaration that stored it, the
\* first one.
C16_DuplicateConstantRejected ==
    xml_doc # 0 =>
        /\ \A p, q \in 1..Len(ctx.constants) :
              ctx.constants[p].name = ctx.constants[q].name => p = q
        /\ Len(ctx.constants) = NProcessed("constant", {C_SUCCESS})
        /\ ConstantJustProcessed =>
              /\ Redeclares(Len(processed)) =>
                    /\ LastProcessed.ret = C_PARSE_ERROR
                    /\ Reporting => RedefinitionLogged(Doc.constants[LastProcessed.k].line)
              /\ \A j \in ConstantEntries :
                    processed[j].ret = C_SUCCESS => ResolvesToDeclared(j)

\* C16 witness: the constants of the document that declares K as an integer
\* and then as a GUID are processed; K is stored once, as the integer 3.
C16_Witness ==
    /\ pc = "controls" /\ file_name = 4 /\ Reporting
    /\ Len(ctx.constants) = 2
    /\ \E j \in ConstantEntries : Redeclares(j) /\ processed[j].k = 2
    /\ lookup_or_convert_to_integer(<<"K">>, ctx.constants) = [ok |-> TRUE, value |-> 3]
    /\ ~lookup_or_convert_to_guid(<<"K">>, ctx.constants).ok

\* The call of fn has returned.
Resolved(fn) == pc = "resolved" /\ resolve.fn = fn

LowerHex ==
    <<"0", "1", "2", "3", "4", "5", "6", "7", "8", "9", "a", "b", "c", "d", "e", "f">>

UpperHex ==
    <<"0", "1", "2", "3", "4", "5", "6", "7", "8", "9", "A", "B", "C", "D", "E", "F">>

\* The hexadecimal digits of either case.
HexChars == {LowerHex[v] : v \in 1..16} \cup {UpperHex[v] : v \in 1..16}

\* The value of a hexadecimal digit of either case.
HexVal(ch) == CHOOSE v \in 0..15 : LowerHex[v + 1] = ch \/ UpperHex[v + 1] = ch

\* A GUID literal: exactly 36 characters, '-' at positions 8, 13, 18 and 23
\* (counted from 0) and a hexadecimal digit everywhere else.
IsGuidLiteral(t) ==
    /\ t # NULL
    /\ Len(t) = 36
    /\ \A p \in 1..36 :
          IF p \in {9, 14, 19, 24} THEN t[p] = "-" ELSE t[p] \in HexChars

\* The byte written with the two hexadecimal digits at position p of t.
ByteAt(t, p) == 16 * HexVal(t[p]) + HexVal(t[p + 1])

\* The bytes of a GUID literal: groups 1, 2 and 3 with their bytes in
\* reversed order, groups 4 and 5 in textual order.
ExpectedBytes(t) ==
    << ByteAt(t, 7), ByteAt(t, 5), ByteAt(t, 3), ByteAt(t, 1),
       ByteAt(t, 12), ByteAt(t, 10),
       ByteAt(t, 17), ByteAt(t, 15),
       ByteAt(t, 20), ByteAt(t, 22),
       ByteAt(t, 25), ByteAt(t, 27), ByteAt(t, 29), ByteAt(t, 31), ByteAt(t, 33),
       ByteAt(t, 35) >>

\* The integer literals among the texts, with the number each one denotes:
\* decimal, 0x hexadecimal and leading-zero octal, with sign and leading
\* whitespace.
IntegerLiterals ==
    { [text |-> <<"7">>, value |-> 7],
      [text |-> <<"0", "x", "1", "F">>, value |-> 31],
      [text |-> <<"0", "1", "0">>, value |-> 8],
      [text |-> <<"-", "5">>, value |-> 0 - 5],
      [text |-> <<" ", "1", "2">>, value |-> 12],
      [text |-> <<"+", "4">>, value |-> 4],
      [text |-> <<"0">>, value |-> 0] }

IsIntegerLiteral(t) == \E l \in IntegerLiterals : l.text = t

\* The constants of the list with a name and a type.
Declared(t, type) ==
    {c \in 1..Len(ctx.constants) :
        ctx.constants[c].name = t /\ ctx.constants[c].type = type}

\* A call of lookup_or_convert_to_integer for a text that is no integer
\* literal gives the value of the integer constant of that name; without
\* one it fails and leaves the caller's integer as it was.
IntegerSymbolResolution ==
    (Resolved("integer") /\ resolve.text # NULL /\ ~IsIntegerLiteral(resolve.text)) =>
        IF Declared(resolve.text, CT_INTEGER) # {}
        THEN /\ resolve.ret = C_SUCCESS
             /\ \E c \in Declared(resolve.text, CT_INTEGER) :
                   resolve.value = ctx.constants[c].value
        ELSE /\ resolve.ret = C_PARSE_ERROR
             /\ resolve.value = resolve.value0

\* A call of lookup_or_convert_to_guid for a text that is no GUID literal
\* gives the bytes of the GUID constant of that name; without one it fails
\* and leaves the caller's buffer as it was.
GuidSymbolResolution ==
    (Resolved("guid") /\ resolve.text # NULL /\ ~IsGuidLiteral(resolve.text)) =>
        IF Declared(resolve.text, CT_GUID) # {}
        THEN /\ resolve.ret = C_SUCCESS
             /\ \E c \in Declared(resolve.text, CT_GUID) :
                   resolve.guid = ctx.constants[c].guid
        ELSE /\ resolve.ret = C_PARSE_ERROR
             /\ resolve.guid = ZeroGuid

\* The same for the texts is_valid_guid rejects: the only texts resolved
\* otherwise are those whose first 36 characters form a GUID literal and
\* that go on after them.
RejectedGuidSymbolResolution ==
    /\ (Resolved("guid") /\ resolve.text # NULL /\ ~is_valid_guid(resolve.text)) =>
          IF Declared(resolve.text, CT_GUID) # {}
          THEN /\ resolve.ret = C_SUCCESS
               /\ \E c \in Declared(resolve.text, CT_GUID) :
                     resolve.guid = ctx.constants[c].guid
          ELSE /\ resolve.ret = C_PARSE_ERROR
               /\ resolve.guid = ZeroGuid
    /\ (resolve.text # NULL /\ is_valid_guid(resolve.text) /\ ~IsGuidLiteral(resolve.text)) =>
          /\ Len(resolve.text) > 36
          /\ IsGuidLiteral(SubSeq(resolve.text, 1, 36))

\* C17: for a text that is not a literal, the resolution gives the declared
\* value when a constant of that name and of the wanted type exists, and
\* fails, without writing a value, when the name is undeclared or declared
\* with the other type.
C17_SymbolResolution == IntegerSymbolResolution /\ GuidSymbolResolution

\* C18: a text that is an integer literal or a GUID literal resolves to the
\* value it denotes, whatever the list of constants holds, a constant named
\* like the text included.
C18_LiteralPrecedence ==
    /\ (Resolved("integer") /\ IsIntegerLiteral(resolve.text)) =>
          /\ resolve.ret = C_SUCCESS
          /\ \E l \in IntegerLiterals :
                l.text = resolve.text /\ resolve.value = l.value
    /\ (Resolved("guid") /\ IsGuidLiteral(resolve.text)) =>
          /\ resolve.ret = C_SUCCESS
          /\ resolve.guid = ExpectedBytes(resolve.text)

\* C18 witness: the text 7 was resolved to 7 with a list that holds an
\* integer constant named 7 whose value is 9.
C18_Witness ==
    /\ Resolved("integer")
    /\ resolve.text = <<"7">>
    /\ \E c \in Declared(<<"7">>, CT_INTEGER) : ctx.constants[c].value = 9
    /\ resolve.value = 7

\* C19: is_valid_guid accepts a text exactly when it is a GUID literal; a
\* text that is none, such as a literal followed by further characters, is
\* looked up as the name of a constant.
C19_GuidLiteralSyntax ==
    /\ resolve.text # NULL =>
          (is_valid_guid(resolve.text) <=> IsGuidLiteral(resolve.text))
    /\ GuidSymbolResolution

\* The text with its letters in lower case.
ToLower(t) ==
    [p \in 1..Len(t) |-> IF t[p] \in HexChars THEN LowerHex[HexVal(t[p]) + 1] ELSE t[p]]

\* The text with its letters in upper case.
ToUpper(t) ==
    [p \in 1..Len(t) |-> IF t[p] \in HexChars THEN UpperHex[HexVal(t[p]) + 1] ELSE t[p]]

\* C20: the 16 bytes stored for a GUID literal are the bytes of groups 1, 2
\* and 3 in reversed order followed by those of groups 4 and 5 in textual
\* order, and they are the bytes stored for the same text in lower case and
\* in upper case.
C20_GuidByteOrder ==
    (Resolved("guid") /\ IsGuidLiteral(resolve.text)) =>
        /\ resolve.guid = ExpectedBytes(resolve.text)
        /\ resolve.guid = guid_to_byte_array(ToLower(resolve.text))
        /\ resolve.guid = guid_to_byte_array(ToUpper(resolve.text))
        /\ \A b \in 1..16 : resolve.guid[b] \in 0..255

\* C20 witness: a GUID literal with digits of both cases was resolved; its
\* first group 12345678 is stored as the bytes 0x78 0x56 0x34 0x12.
C20_Witness ==
    /\ Resolved("guid")
    /\ resolve.text = GuidText(1, 0)
    /\ resolve.text # ToLower(resolve.text)
    /\ resolve.text # ToUpper(resolve.text)
    /\ SubSeq(resolve.guid, 1, 4) = <<120, 86, 52, 18>>

\* The call of process_control or process_mapping has returned.
CallDone(kind) == pc = "declared" /\ decl.kind = kind

\* The call sent its declaration to the driver.
DeclSent == calls # << >>

\* C21: every control in the list of controls and every control passed to
\* UVCIOC_CTRL_ADD has UVC_CTRL_FLAG_AUTO_UPDATE set, whatever the list of
\* requests of its declaration: empty, or made of unrecognized names only.
C21_AutoUpdateAlways ==
    /\ \A p \in 1..Len(ctx.controls) :
          "UVC_CTRL_FLAG_AUTO_UPDATE" \in ctx.controls[p].flags
    /\ \A j \in CallsOf("UVCIOC_CTRL_ADD") :
          "UVC_CTRL_FLAG_AUTO_UPDATE" \in calls[j].arg.flags
    /\ (CallDone("control") /\ decl.node.entity = TxtGuid1) =>
          /\ Cardinality(CallsOf("UVCIOC_CTRL_ADD")) = 1
          /\ Len(ctx.controls) = Len(StoredControls) + 1

\* C21 witness: a control whose requests are all unrecognized was sent and
\* stored with UVC_CTRL_FLAG_AUTO_UPDATE as its only flag.
C21_Witness ==
    /\ CallDone("control")
    /\ decl.node.requests = <<"GET_FOO", NoText>>
    /\ DeclSent
    /\ calls[1].arg.flags = {"UVC_CTRL_FLAG_AUTO_UPDATE"}
    /\ ctx.controls[1].flags = {"UVC_CTRL_FLAG_AUTO_UPDATE"}
    /\ ctx.controls[1].id = decl.node.id

\* The request names the driver interface knows, with their flags.
RecognizedRequests ==
    { <<"SET_CUR", "UVC_CTRL_FLAG_SET_CUR">>, <<"GET_CUR", "UVC_CTRL_FLAG_GET_CUR">>,
      <<"GET_MIN", "UVC_CTRL_FLAG_GET_MIN">>, <<"GET_MAX", "UVC_CTRL_FLAG_GET_MAX">>,
      <<"GET_RES", "UVC_CTRL_FLAG_GET_RES">>, <<"GET_DEF", "UVC_CTRL_FLAG_GET_DEF">> }

\* The positions of the unrecognized tokens of a list of requests.
Unrecognized(requests) ==
    {p \in 1..Len(requests) : \A r \in RecognizedRequests : r[1] # requests[p]}

\* The flags of the recognized tokens of a list of requests.
RecognizedFlags(requests) ==
    {r[2] : r \in {q \in RecognizedRequests : \E p \in 1..Len(requests) : requests[p] = q[1]}}

\* The messages of the log about an unrecognized request.
RequestMessages ==
    {q \in 1..Len(info.messages) :
        info.messages[q].text.fmt = "Invalid UVC request specified: '%s'"}

\* A control whose list of requests is reached is sent and stored with the
\* flags of its recognized requests and UVC_CTRL_FLAG_AUTO_UPDATE, and the
\* log gets one message per unrecognized request, at the line of the
\* <request> nodes.
UnrecognizedRequestsTolerated ==
    (CallDone("control") /\ decl.node.entity = TxtGuid1) =>
        /\ Cardinality(CallsOf("UVCIOC_CTRL_ADD")) = 1
        /\ calls[1].arg.flags =
              RecognizedFlags(decl.node.requests) \cup {"UVC_CTRL_FLAG_AUTO_UPDATE"}
        /\ ctx.controls[1] = calls[1].arg
        /\ ctx.controls[1].id = decl.node.id
        /\ Reporting =>
              /\ Cardinality(RequestMessages) = Cardinality(Unrecognized(decl.node.requests))
              /\ \A q \in RequestMessages : info.messages[q].line = decl.node.requestLine

\* C22: each request of a control declaration that is not one of SET_CUR,
\* GET_CUR, GET_MIN, GET_MAX, GET_RES, GET_DEF appends exactly one message of
\* severity warning, and the control is sent and stored all the same, with
\* the flags of its recognized requests.
C22_UnrecognizedRequestWarns ==
    /\ UnrecognizedRequestsTolerated
    /\ \A q \in RequestMessages : info.messages[q].severity = CD_SEVERITY_WARNING

\* The message at position j (from 0) of the block, as the caller reads it:
\* the fields of the array element and the string its text points to.
ReadMessage(mem, j) ==
    [line |-> mem[j * MessageCells + 1].line,
     col |-> mem[j * MessageCells + 1].col,
     severity |-> mem[j * MessageCells + 1].severity,
     text |-> StringAt(mem, mem[j * MessageCells + 1].text)]

\* The messages the caller reads from info->messages.
ReadLog == [j \in 1..Len(info.messages) |-> ReadMessage(buffer, j - 1)]

\* The calls of add_message_v made so far that returned r.
AppendsReturning(r) == {j \in 1..Len(calls) : calls[j].res = r}

\* The calls of add_message_v are all in.
LogFull == pc = "log" /\ Len(calls) = MaxMessages

\* C23 as stated: when the caller passed no info structure, or one without
\* CD_REPORT_ERRORS, every call of add_message_v returns C_SUCCESS and leaves
\* the message count at 0 and the buffer as it was.
C23_NoOpReturnsSuccess ==
    (pc = "log" /\ ~Reporting) =>
        /\ info.messages = << >>
        /\ buffer = EmptyBuffer
        /\ \A j \in 1..Len(calls) : calls[j].res = C_SUCCESS

\* C23: when the caller passed no info structure, or one without
\* CD_REPORT_ERRORS, every call of add_message_v leaves the message count
\* at 0 and the buffer as it was; it returns C_SUCCESS with an info
\* structure and C_INVALID_ARG without one.
C23_NoOpWhenNotReporting ==
    (pc = "log" /\ ~Reporting) =>
        /\ info.messages = << >>
        /\ buffer = EmptyBuffer
        /\ \A j \in 1..Len(calls) :
              calls[j].res = IF info.present THEN C_SUCCESS ELSE C_INVALID_ARG

\* C23 witness: three calls were made without an info structure.
C23_Witness ==
    /\ LogFull
    /\ ~info.present
    /\ buffer = EmptyBuffer
    /\ calls[MaxMessages].arg.text = <<"a", "b">>

\* C24: with CD_REPORT_ERRORS, the log read from the buffer is the sequence
\* of the messages of the calls that returned C_SUCCESS, in the order of
\* the calls, each with the line, column, severity and text passed; as the
\* calls made do not change, no later call changes an earlier message.
C24_LogKeepsEveryMessage ==
    (pc = "log" /\ Reporting) =>
        /\ Len(info.messages) = Cardinality(AppendsReturning(C_SUCCESS))
        /\ ReadLog = info.messages
        /\ \A j \in AppendsReturning(C_SUCCESS) :
              ReadLog[Cardinality({l \in AppendsReturning(C_SUCCESS) : l <= j})]
                  = calls[j].arg
        /\ Len(buffer) >= Len(info.messages) * MessageCells

\* C24 witness: the same message was stored twice and one with an empty text
\* between them; the call before them found no memory.
C24_Witness ==
    /\ pc = "log"
    /\ Reporting
    /\ Len(calls) >= 3
    /\ Len(info.messages) >= 2
    /\ \E j \in 1..Len(calls) : calls[j].res = C_NO_MEMORY
    /\ ReadLog[1] = ReadLog[Len(info.messages)]
    /\ ReadLog[1].text = <<"a", "b">>

\* The devices add_control_mappings has been called for so far.
DevicesAttempted == Cardinality(CallsOf("open_v4l2_device"))

TransportFormats ==
    { "%s: unable to add control with GUID {%s} and selector %d. ioctl(UVCIOC_CTRL_ADD) failed with return value %d (error %d: %s)",
      "%s: unable to map '%s' control. ioctl(UVCIOC_CTRL_MAP) failed with return value %d (error %d: %s)" }

\* The messages of the log about a failed request to the driver.
TransportMessages ==
    {q \in 1..Len(info.messages) : info.messages[q].text.fmt \in TransportFormats}

\* The declaration was sent and its call has returned: the request to the
\* driver is the only call made.
SentAndDone == pc = "declared" /\ Len(calls) = 1

\* After a declaration was sent: with `tolerated` the call returns C_SUCCESS
\* and logs nothing about the driver; otherwise it returns C_V4L2_ERROR and
\* logs one error about it.
ToleratedOrHardError(tolerated) ==
    IF tolerated
    THEN decl.ret = C_SUCCESS /\ TransportMessages = {}
    ELSE /\ decl.ret = C_V4L2_ERROR
         /\ Reporting => Cardinality(TransportMessages) = 1

\* C26 as stated: EEXIST from UVCIOC_CTRL_ADD or UVCIOC_CTRL_MAP is
\* tolerated exactly when the pass counter is greater than 1; in pass 1 it
\* is an error, and every other failure is an error in every pass.
C26_EexistToleratedAfterPassOne ==
    SentAndDone =>
        ToleratedOrHardError(\/ calls[1].res = "0"
                             \/ calls[1].res = "EEXIST" /\ ctx.pass > 1)

\* C26: in a build with DYNCTRL_IGNORE_EEXIST_AFTER_PASS1, EEXIST from
\* UVCIOC_CTRL_ADD or UVCIOC_CTRL_MAP is tolerated exactly when the pass
\* counter is greater than 1; in a build without it EEXIST is an error in
\* every pass; every other failure is an error in every pass and build.
C26_EexistToleratedByBuild ==
    SentAndDone =>
        ToleratedOrHardError(\/ calls[1].res = "0"
                             \/ /\ calls[1].res = "EEXIST"
                                /\ ctx.pass > 1
                                /\ ignore_eexist)

\* C26 witness: in the second pass of a build with the option the driver
\* answered EEXIST to a mapping; the call returned C_SUCCESS and the log,
\* which is kept, is empty.
C26_Witness ==
    /\ SentAndDone
    /\ decl.kind = "mapping"
    /\ ignore_eexist
    /\ ctx.pass = 2
    /\ calls[1].res = "EEXIST"
    /\ decl.ret = C_SUCCESS
    /\ Reporting
    /\ info.messages = << >>

\* The integer literals among SizeTexts, with the number each one denotes.
SizeLiterals ==
    { [text |-> <<"0">>, value |-> 0],
      [text |-> <<"8">>, value |-> 8],
      [text |-> <<"2", "5", "5">>, value |-> 255],
      [text |-> <<"2", "5", "6">>, value |-> 256],
      [text |-> <<"0", "x", "F", "F">>, value |-> 255],
      [text |-> <<"0", "x", "1", "0", "0">>, value |-> 256],
      [text |-> <<"-", "1">>, value |-> 0 - 1] }

\* The number an integer literal denotes (none for any other text).
LiteralMeant(t) == {l.value : l \in {x \in SizeLiterals : x.text = t}}

\* The value of the integer constant named by a text (none when there is no
\* such constant).
SymbolMeant(t) == {ctx.constants[c].value : c \in Declared(t, CT_INTEGER)}

\* A mapping whose fields other than <size> and <offset> are well-formed.
SizeCaseDone ==
    /\ CallDone("mapping")
    /\ \E sz \in SizeTexts, off \in SizeTexts :
          decl.node = MappingAt(TxtFocus, "xu", sz, off, "UVC_CTRL_DATA_TYPE_UNSIGNED")

\* With sizes(t) the values a text may resolve to: the mapping is sent with
\* the resolved size and offset when both resolve to a value of [0, 0xFF],
\* and is aborted with C_PARSE_ERROR, unsent, otherwise.
SizeAndOffsetResolved(sizes(_)) ==
    SizeCaseDone =>
        IF /\ sizes(decl.node.size) \cap (0..255) # {}
           /\ sizes(decl.node.offset) \cap (0..255) # {}
        THEN /\ Len(calls) = 1
             /\ calls[1].op = "UVCIOC_CTRL_MAP"
             /\ calls[1].arg.size \in sizes(decl.node.size)
             /\ calls[1].arg.offset \in sizes(decl.node.offset)
        ELSE /\ calls = << >>
             /\ decl.ret = C_PARSE_ERROR

LiteralOrSymbolMeant(t) == LiteralMeant(t) \cup SymbolMeant(t)

\* The size and offset of a mapping are integer literals of [0, 0xFF]: a
\* literal outside the range, and every other text, the name of an integer
\* constant included, aborts the mapping.
MappingSizeLiteralOnly == SizeAndOffsetResolved(LiteralMeant)

\* C27: the size and the offset of a mapping are each resolved as an integer
\* literal or as the integer constant of that name, and the mapping is
\* accepted exactly when both resolved values lie in [0, 0xFF]; a value
\* outside, or a text that does not resolve, aborts the mapping.
C27_MappingSizeOrSymbol == SizeAndOffsetResolved(LiteralOrSymbolMeant)


\* The file of the session lacks the section s.
Lacks(s) == file_name # 0 /\ s \notin Files[file_name].sections

\* The process was killed by a signal.
ProcessKilled == pc \in {"SIGABRT", "SIGSEGV"}

\* At the end of a pass every declaration of the sections the document has
\* was processed in that pass (the constants in the first pass).
PresentSectionsApplied ==
    pc = "pass_done" =>
        /\ ctx.pass = 1 => \A pos \in 1..Len(Doc.constants) : Attempted("constant", pos, 1)
        /\ \A pos \in 1..Len(Doc.controls) : Attempted("control", pos, ctx.pass)
        /\ \A pos \in 1..Len(Doc.mappings) : Attempted("mapping", pos, ctx.pass)

\* A file without <devices> in any build, and a file without <meta> in a
\* build without assertions for a caller that did not ask for the meta
\* information, are processed to the end of every pass.
DevicesSectionOptional ==
    (Lacks("devices") \/ (Lacks("meta") /\ ndebug /\ ~ReadsMeta(info))) =>
        ~ProcessKilled /\ PresentSectionsApplied

\* C28: a well-formed document that lacks the meta, the constants, the
\* devices or the mappings section is processed to completion on each
\* supported device: the process is not aborted, and every pass applies the
\* sections the document has.
C28_SectionsOptional == ~ProcessKilled /\ PresentSectionsApplied


\* The smaller of two numbers.
Min(a, b) == IF a < b THEN a ELSE b

\* The field holds the first min(len, W - 1) characters of src followed by
\* '\0', and W bytes in all.
HoldsTruncated(field, src) ==
    /\ Len(field) = MappingNameWidth
    /\ \A p \in 1..Min(Len(src), MappingNameWidth - 1) : field[p] = src[p]
    /\ field[Min(Len(src), MappingNameWidth - 1) + 1] = NUL

\* C29: the name field of a mapping that is sent holds the first
\* min(len, W - 1) characters of the normalized name followed by '\0', for a
\* name shorter than, as long as and longer than the field; and a call of
\* process_mapping reads no byte of the name beyond its terminator.
C29_NameTruncated ==
    /\ (SentAndDone /\ decl.kind = "mapping") =>
          HoldsTruncated(calls[1].arg.name, unicode_to_normalized_ascii(decl.node.name))
    /\ (CallDone("mapping") /\ unicode_to_normalized_ascii(decl.node.name) # NULL) =>
          decl.read <= Len(unicode_to_normalized_ascii(decl.node.name)) + 1

\* C29 witness: a mapping with a name of W + 7 characters was sent; the
\* field holds its first W - 1 characters and '\0' in its last byte, and
\* W - 1 bytes of the name were read.
C29_Witness ==
    /\ SentAndDone
    /\ decl.kind = "mapping"
    /\ decl.node.name = NameOfLength(MappingNameWidth + 7)
    /\ SubSeq(calls[1].arg.name, 1, MappingNameWidth - 1) =
          NameOfLength(MappingNameWidth - 1)
    /\ calls[1].arg.name[MappingNameWidth] = NUL
    /\ decl.read = MappingNameWidth - 1


\* The formats of the errors about the children of <uvc> other than
\* <control_ref>: <size>, <offset> and <uvc_type>.
UvcFieldFormats ==
    { "Invalid UVC control size specified: '%s'",
      "Invalid UVC control offset specified: '%s'",
      "Invalid UVC control type specified: '%s'" }

\* The formats of the errors about the children of <v4l2>: <id> and
\* <v4l2_type>.
V4l2FieldFormats ==
    { "V4L2 ID contains invalid number or references unknown constant: '%s'",
      "Invalid V4L2 control type specified: '%s'" }

\* The formats of the errors about the idref attribute of <control_ref>.
ControlRefFormats ==
    { "Invalid control reference. 'idref' attribute referencing a <control> is mandatory.",
      "Invalid control reference: control with ID '%s' could not be found." }

\* The line of the node an error about the declaration `node` concerns: the
\* <request>, <control_ref>, <uvc> or <v4l2> element that holds what the
\* error is about, else the <control> or <mapping> node itself.  `uvcFields`
\* names the element taken for the errors about <size>, <offset> and
\* <uvc_type>.
ConcernedLine(fmt, node, uvcFields) ==
    IF fmt = "Invalid UVC request specified: '%s'" THEN node.requestLine
    ELSE IF fmt \in ControlRefFormats THEN node.refLine
    ELSE IF fmt = "Control reference missing. <control_ref> is mandatory." THEN node.uvcLine
    ELSE IF fmt \in V4l2FieldFormats THEN node.v4l2Line
    ELSE IF fmt \in UvcFieldFormats
    THEN (IF uvcFields = "uvc" THEN node.uvcLine ELSE node.v4l2Line)
    ELSE node.line

\* After a call of process_control or process_mapping: an error about the
\* request to the driver has line 0, column 0 and names the device of
\* ctx->handle; every other error has the line of the node it concerns.
PositionsAfterCall(uvcFields) ==
    (pc = "declared" /\ decl.kind \in {"control", "mapping"}) =>
        \A q \in 1..Len(info.messages) :
            IF q \in TransportMessages
            THEN /\ info.messages[q].line = 0
                 /\ info.messages[q].col = 0
                 /\ info.messages[q].text.dev = ctx.handle
            ELSE /\ info.messages[q].line =
                        ConcernedLine(info.messages[q].text.fmt, decl.node, uvcFields)
                 /\ info.messages[q].text.dev = 0

\* The positions as logged: the errors about <size>, <offset> and
\* <uvc_type> carry the line of the <v4l2> element.
PositionsAsLogged == PositionsAfterCall("v4l2")

\* C30: a diagnostic about a failed request to the driver has line 0 and
\* column 0 and names the device being processed; a diagnostic about a
\* declaration that could not be parsed or resolved carries the line of the
\* node it concerns: for the size, the offset and the type of the UVC
\* control, the <uvc> element.
C30_DiagnosticPositions == PositionsAfterCall("uvc")


RECURSIVE WordLen(_)
\* The length of the word a text starts with: its characters up to the
\* first whitespace.
WordLen(s) == IF s = << >> \/ IsSpace(Head(s)) THEN 0 ELSE 1 + WordLen(Tail(s))

RECURSIVE WordsOf(_)
\* The words of a text: its maximal runs of characters that are no
\* whitespace, in order.
WordsOf(s) ==
    IF s = << >> THEN << >>
    ELSE IF IsSpace(Head(s)) THEN WordsOf(Tail(s))
    ELSE <<SubSeq(s, 1, WordLen(s))>> \o WordsOf(SubSeq(s, WordLen(s) + 1, Len(s)))

\* Text a has no whitespace at either end, and its only whitespace is single
\* spaces.
SingleSpaced(a) ==
    /\ a # << >> => ~IsSpace(a[1]) /\ ~IsSpace(a[Len(a)])
    /\ \A p \in 1..Len(a) : IsSpace(a[p]) => a[p] = " " /\ ~IsSpace(CharAt(a, p + 1))

\* process_meta returned after storing the meta information of a node with
\* an <author>.
AuthorStored ==
    /\ CallDone("meta")
    /\ ReadsMeta(info)
    /\ decl.node.author # NULL

\* C31: the author stored by process_meta is the text of <author>
\* whitespace-normalized: no whitespace at either end, one space for every
\* run of whitespace between two words, the words (hence the characters
\* that are no whitespace) in the order of the text; and normalizing the
\* stored author again returns it unchanged.
C31_AuthorNormalized ==
    AuthorStored =>
        /\ info.meta.author # NULL
        /\ SingleSpaced(info.meta.author)
        /\ WordsOf(info.meta.author) = WordsOf(decl.node.author)
        /\ SelectSeq(info.meta.author, LAMBDA c : ~IsSpace(c))
             = SelectSeq(decl.node.author, LAMBDA c : ~IsSpace(c))
        /\ normalize_string(info.meta.author) = info.meta.author

\* An author with whitespace in front, a run of two different whitespace
\* characters between its words and whitespace at its end was stored as
\* "a b".
C31_Witness ==
    /\ AuthorStored
    /\ decl.node.author = <<" ", "a", "\t", " ", "b", "\t">>
    /\ info.meta.author = <<"a", " ", "b">>

\* The transport handle of device d opened and its probe reported support.
ProbePassed(d) ==
    /\ SucceededFor("open_v4l2_device", d)
    /\ \E j \in CallsOf("UVCIOC_CTRL_ADD probe") :
          calls[j].dev = d /\ calls[j].res = "EEXIST"

\* The devices the loop is done with.
DevicesDone == 1..(i - 1)

\* Every control and every mapping declaration processed for the device of
\* pass p failed, and there is one.
EveryDeclarationFailed(p) ==
    /\ \E j \in 1..Len(processed) :
          processed[j].pass = p /\ processed[j].kind \in {"control", "mapping"}
    /\ \A j \in 1..Len(processed) :
          (processed[j].pass = p /\ processed[j].kind \in {"control", "mapping"})
              => processed[j].ret # C_SUCCESS

\* C32: between two devices and after the loop, the devices counted as
\* successful are exactly those whose transport handle opened and whose
\* probe reported support; what the declarations of the document returned
\* for the device plays no part.
C32_DeviceCountedByProbe ==
    (pc \in {"loop", "cleanup", "done"} /\ devices # << >>)
        => successful_devices = Cardinality({d \in DevicesDone : ProbePassed(d)})

\* The first device passed the probe, each of its controls and mappings
\* failed, and it is counted.
C32_Witness ==
    /\ pc = "loop"
    /\ i = 2
    /\ ProbePassed(1)
    /\ EveryDeclarationFailed(1)
    /\ successful_devices = 1

\* Constant c of the document has been processed, and is in the list of
\* constants if its declaration returned C_SUCCESS.
ConstantKnown(c) ==
    \E j \in ConstantEntries :
        /\ processed[j].k = c
        /\ processed[j].ret = C_SUCCESS =>
              \E e \in 1..Len(ctx.constants) : ctx.constants[e].name = NameOf(j)

\* C33: whenever process_control or process_mapping is about to be called,
\* every constant of the document has been processed and every constant
\* whose declaration succeeded is in the list of constants, whichever
\* device is the first to pass the probe; and no constant is processed
\* after a control or a mapping.
C33_ConstantsBeforeDeclarations ==
    /\ (processed # << >> /\ LastProcessed.kind = "constant") =>
          \A j \in 1..Len(processed) : processed[j].kind = "constant"
    /\ (xml_doc # 0 /\ pc \in {"controls", "mappings"}) =>
          \A c \in 1..Len(Doc.constants) : ConstantKnown(c)

\* The first device failed the probe; the second passed it, and its first
\* control is about to be resolved with the three constants processed.
C33_Witness ==
    /\ pc = "controls"
    /\ k = 1
    /\ i = 2
    /\ FailedProbe(1)
    /\ Cardinality(ConstantEntries) = 3
    /\ Len(ctx.constants) >= 1

\* The handles opened by successful calls of `open` and not closed by a call
\* of `close` since, each named by its device.
OpenHandles(open, close) ==
    {d \in 1..Len(devices) :
        Cardinality({j \in CallsOf(open) : calls[j].dev = d /\ calls[j].res = "0"})
          > Cardinality({j \in CallsOf(close) : calls[j].dev = d})}

\* The last call opened the handle of device d.
JustOpened(d) ==
    /\ calls # << >>
    /\ calls[Len(calls)].op = "c_open_device"
    /\ calls[Len(calls)].dev = d
    /\ calls[Len(calls)].res = "0"

\* With the device handles `device` and the V4L2 handles `v4l2` open.
HandlesInOrder(device, v4l2) ==
    /\ Cardinality(device) <= 1
    /\ Cardinality(v4l2) <= 1
    /\ v4l2 \subseteq device
    /\ \A d \in 1..Len(devices) : JustOpened(d) => device = {d}
    /\ \A j \in CallsOf("close") \cup CallsOf("c_close_device") : calls[j].dev # 0
    /\ Returned => device = {} /\ v4l2 = {}

\* The last call opened or closed a handle, or tried to.
HandleCallJustMade ==
    /\ calls # << >>
    /\ calls[Len(calls)].op \in
          {"c_open_device", "c_close_device", "open_v4l2_device", "close"}

\* C34: at every point of a session at most one device handle and at most
\* one V4L2 handle are open, and an open V4L2 handle belongs to the device
\* whose handle is open; when the handle of a device has just been opened,
\* no handle of another device is open; and when the session has returned
\* no handle is open.  No handle is closed that was not opened.  The open
\* handles are a function of the record of calls, which grows by one call at
\* a time, so they are counted right after each call that opens or closes a
\* handle and when the session has returned: the points between have the
\* handles of the last such call.
C34_HandlesClosed ==
    (HandleCallJustMade \/ Returned) =>
        HandlesInOrder(OpenHandles("c_open_device", "c_close_device"),
                       OpenHandles("open_v4l2_device", "close"))

\* The session returned after it had opened and closed the device handle
\* and the V4L2 handle of two devices.
C34_Witness ==
    /\ Returned
    /\ Cardinality(CallsOf("close")) = 2
    /\ Cardinality(CallsOf("c_close_device")) = 2
    /\ SucceededFor("open_v4l2_device", 1)
    /\ SucceededFor("open_v4l2_device", 2)

\* The call of process_constant, process_control or process_mapping
\* returned an error with the log kept.
FailedAndReporting ==
    /\ pc = "declared"
    /\ decl.ret # C_SUCCESS
    /\ Reporting

\* The log, empty at the call, holds an error.
ErrorLogged ==
    \E q \in 1..Len(info.messages) : info.messages[q].severity = CD_SEVERITY_ERROR

\* Every call that returned an error logged an error, but for a mapping
\* without <v4l2>, which logged nothing.
FailuresLoggedButMissingV4l2 ==
    FailedAndReporting =>
        IF decl.kind = "mapping" /\ ~decl.node.hasV4l2
        THEN info.messages = << >>
        ELSE ErrorLogged

\* C35: with the log kept, every call of process_constant, process_control
\* or process_mapping that returned an error appended at least one message
\* of severity error.
C35_NoSilentFailure == FailedAndReporting => ErrorLogged

\* process_constant has ended, by returning or in a signal, for a constant
\* of type guid with a name that no list of constants holds at the call.
GuidConstantDone ==
    /\ pc \in {"declared", "SIGABRT", "SIGSEGV"}
    /\ decl.kind = "constant"
    /\ constant_type(decl.node.type) = CT_GUID
    /\ \A t \in DeclTables : ReadsValue(decl.node, t)

\* The call stored the constant: it is at the head of the list.
GuidConstantStored ==
    /\ ctx.constants # << >>
    /\ ctx.constants[1].name = decl.node.id
    /\ ctx.constants[1].type = CT_GUID

\* The call returned an error, logged one if the log is kept, and left the
\* list as it was.
GuidConstantRejected ==
    /\ pc = "declared"
    /\ decl.ret # C_SUCCESS
    /\ Reporting => ErrorLogged
    /\ ~GuidConstantStored

\* A guid constant is stored, with C_SUCCESS and without a message, whatever
\* its value text; without <value> the call may also end in SIGSEGV.
GuidConstantNeverRejected ==
    GuidConstantDone =>
        \/ pc = "declared" /\ decl.ret = C_SUCCESS /\ GuidConstantStored
                           /\ info.messages = << >>
        \/ pc = "SIGSEGV" /\ decl.node.value = NULL

\* C36: a guid constant is stored only if its value text is a GUID literal;
\* with a value that is missing or no GUID literal the call returns an
\* error, logs one and stores nothing.
C36_GuidConstantValidated ==
    GuidConstantDone =>
        IF IsGuidLiteral(decl.node.value)
        THEN pc = "declared" /\ decl.ret = C_SUCCESS /\ GuidConstantStored
        ELSE GuidConstantRejected

\* The session returned after c_enum_devices had found no device.
ReturnedWithoutDevices ==
    /\ Returned
    /\ CallsOf("c_enum_devices") # {}
    /\ devices = << >>

\* C38: a session in which c_enum_devices finds no device returns
\* C_INVALID_DEVICE without reading the file: the parser is not called, no
\* message is logged and the statistics are zero, whether the file is
\* well-formed or not.
C38_NoDeviceBeforeParsing ==
    ReturnedWithoutDevices =>
        /\ ret = C_INVALID_DEVICE
        /\ CallsOf("xmlCtxtReadFile") = {}
        /\ Len(calls) = 1
        /\ info.messages = << >>
        /\ info.stats = ZeroStats
        /\ processed = << >>

\* The session for the malformed file returned without devices, with the
\* log kept.
C38_Witness ==
    /\ ReturnedWithoutDevices
    /\ ~Files[file_name].wellFormed
    /\ Reporting
    /\ ret = C_INVALID_DEVICE

\* The statistics line of a category.
PrintedLine(what) == CHOOSE l \in {stdout[j] : j \in 1..Len(stdout)} : l.what = what

\* The line of a category names the numbers of declarations of the kind that
\* returned an error and that returned success.
LineMatches(what, kind) ==
    /\ PrintedLine(what).failed = NProcessed(kind, Results \ {C_SUCCESS})
    /\ PrintedLine(what).successful = NProcessed(kind, {C_SUCCESS})
    /\ PrintedLine(what).processed = NProcessed(kind, Results)

\* The front end has printed the statistics.
StatisticsPrinted == pc = "exit" /\ HAS_VERBOSE

\* C39: in verbose mode the front end prints three statistics lines, and for
\* each of constants, controls and mappings the number labelled failed is the
\* number of declarations of the category whose processing returned an error
\* during the session and the number labelled successful is the number whose
\* processing returned success.
C39_PrintedStatistics ==
    /\ StatisticsPrinted =>
        /\ Len(stdout) = 3
        /\ LineMatches("constants", "constant")
        /\ LineMatches("controls", "control")
        /\ LineMatches("mappings", "mapping")
    /\ (pc = "exit" /\ ~HAS_VERBOSE) => stdout = << >>

\* Statistics printed after a session in which mappings failed and mappings
\* succeeded, and the counters of the library differ.
C39_Witness ==
    /\ StatisticsPrinted
    /\ PrintedLine("mappings").failed > 0
    /\ PrintedLine("mappings").successful > 0
    /\ PrintedLine("mappings").successful # PrintedLine("mappings").failed
    /\ PrintedLine("constants").successful > 0

\* The probe, add-control and add-mapping requests of a record of calls, in
\* the order they were made, with the device and the structure passed.
RECURSIVE TransportRequests(_)
TransportRequests(cs) ==
    IF cs = << >> THEN << >>
    ELSE IF Head(cs).op \in {"UVCIOC_CTRL_ADD probe", "UVCIOC_CTRL_ADD", "UVCIOC_CTRL_MAP"}
    THEN <<[op |-> Head(cs).op, dev |-> Head(cs).dev, arg |-> Head(cs).arg]>>
             \o TransportRequests(Tail(cs))
    ELSE TransportRequests(Tail(cs))

\* The second session has ended: it returned or the process was killed.
SecondEnded == first # NoSession /\ pc \in {"done", "SIGABRT", "SIGSEGV"}

\* The second session did what the first did.
SameAsFirst ==
    /\ pc = first.pc
    /\ ret = first.ret
    /\ TransportRequests(calls) = TransportRequests(first.calls)

\* The options make no difference for a file whose <meta> node has the
\* <version> and <revision> children.
OptionsIrrelevantWithVersion ==
    (SecondEnded /\ NULL \notin {Files[file_name].meta.version, Files[file_name].meta.revision})
        => SameAsFirst

\* C37: for the same document and the same device outcomes, a session issues
\* the same probe, add-control and add-mapping requests and returns the same
\* result whatever the options (info absent, report-errors, retrieve-meta,
\* skip-validation) are.
C37_OptionsDoNotInfluence == SecondEnded => SameAsFirst

=============================================================================
